---- MODULE Spec2Model ----
(***************************************************************************)
(* alert2snow-agent: the Alertmanager webhook handler, the correlation id  *)
(* and the ServiceNow client's retry loop.                                 *)
(*                                                                         *)
(* Strings are finite sequences of character codes (1 < 2 < ...), so that  *)
(* sort.Strings and string concatenation are computed, not assumed.        *)
(***************************************************************************)
EXTENDS Integers, Sequences, FiniteSets, TLC

(***************************************************************************)
(* Bounds of the model                                                     *)
(***************************************************************************)
\* longest batch of alerts in the webhook request r1
MaxAlerts == 2
\* longest batch of alerts in the request r2 served concurrently
MaxOther == 1
\* largest cfg.MaxAttempts tried for WithRetry
MaxTries == 3
\* number of GenerateCorrelationID calls made on one input
MaxCalls == 2

\* the concurrent webhook requests (each may be served by another replica)
Reqs == {"r1", "r2"}

(***************************************************************************)
(* State                                                                   *)
(***************************************************************************)
\* the handler's requests and the incident table of the external system
VARIABLES
    pc,         \* per request: "idle", "loop", "resolve", "done"
    method,     \* per request: r.Method
    parsed,     \* per request: the body was read and json.Unmarshal succeeded
    alerts,     \* per request: payload.Alerts
    pos,        \* per request: index of the alert the range loop is at
    errCount,   \* per request: errCount of ServeHTTP
    code,       \* per request: the status written to the ResponseWriter, 0 before
    existing,   \* per request: the record the lookup of the current alert returned
    calls,      \* per request: the calls made on the ServiceNowClient, in order:
                \* op, idx (the alert's position), key (the correlation id passed),
                \* sysID (passed to ResolveIncident, or returned by the lookup, 0 for
                \* none), err (the call returned an error)
    incidents,  \* the incident table: record i has sys_id i
    snap,       \* per request: incidents with the current resolved alert's key
    owed,       \* incidents a fully successful resolved alert came after
    handler     \* the Handler with its Transformer and Client: what the process
                \* holds across requests

hvars == <<pc, method, parsed, alerts, pos, errCount, code, existing,
           calls, incidents, snap, owed, handler>>

\* one call of WithRetry
VARIABLES
    cfg,        \* the RetryConfig passed to WithRetry
    rpc,        \* "loop" (at the loop condition), "select", "returned"
    attempt,    \* the loop variable
    lastErr,    \* lastErr
    ret,        \* the error WithRetry returned
    fnLog,      \* the results of the invocations of fn, in order
    waits,      \* the delays of the selects entered, in order
    cancelled,  \* ctx is done
    wake,       \* the select case that woke the goroutine: "none", "ctx", "timer"
    cancelAt,   \* Len(fnLog) when ctx was cancelled during a wait, else -1
    rop,        \* the client operation whose closure is fn
    sent        \* what c.httpClient.Do met in each invocation of fn, in order

rvars == <<cfg, rpc, attempt, lastErr, ret, fnLog, waits, cancelled, wake, cancelAt,
           rop, sent>>

\* calls of GenerateCorrelationID
VARIABLES
    fpName,     \* the alertname argument
    fpLabels,   \* the labels argument
    fpOrders,   \* the enumeration order of the map in each call made
    fpIds       \* the value each call returned

fvars == <<fpName, fpLabels, fpOrders, fpIds>>

\* one call of Transform
VARIABLES
    tAlert,     \* the alert argument: Labels, GeneratorURL
    tCfg,       \* the Transformer's configuration: ClusterLabelKey
    tOrder,     \* the enumeration order of the label map in the call
    tDone,      \* Transform has returned
    tCluster,   \* the local variable cluster of Transform
    tIncident,  \* the incident returned: ShortDescription, CorrelationID
    tExternalURL \* the externalURL argument

tvars == <<tAlert, tCfg, tOrder, tDone, tCluster, tIncident, tExternalURL>>

\* one call of calculateBackoff
VARIABLES
    bAttempt,   \* the attempt argument
    bBase,      \* the baseDelay argument
    bMax,       \* the maxDelay argument
    bDone,      \* calculateBackoff has returned
    bDelay      \* the delay returned

bvars == <<bAttempt, bBase, bMax, bDone, bDelay>>

\* one call of checkResponse
VARIABLES
    cStatus,    \* resp.StatusCode
    cDone,      \* checkResponse has returned
    cErr        \* the error returned

cvars == <<cStatus, cDone, cErr>>

\* one call of extractClusterFromURL
VARIABLES
    eURL,       \* the rawURL argument
    eDone,      \* extractClusterFromURL has returned
    eCluster    \* the string returned

evars == <<eURL, eDone, eCluster>>

\* one request's batch, its client operations seen from their start to their return
VARIABLES
    qAlerts,    \* the statuses of the batch's alerts
    qPos,       \* the position of the loop
    qPc,        \* "loop", "call" (processAlert has not returned), "done" (response written)
    qInFlight,  \* the client operations started and not returned: idx, op, attempt
    qFinished,  \* the positions of the alerts whose processAlert has returned
    qCalls,     \* the client operations started, in order: idx, op
    qRequests   \* the number of HTTP requests the client has sent

qvars == <<qAlerts, qPos, qPc, qInFlight, qFinished, qCalls, qRequests>>

\* the process around the HTTP server: main, from the wait for a signal on
VARIABLES
    sMain,      \* "serving" (blocked in <-quit), "signalled", "draining" (inside
                \* server.Shutdown), "exited"
    sListening, \* the server's listener is open
    sReq,       \* per connection: "none", "active" (ServeHTTP runs), "responded",
                \* "aborted" (the process exited while ServeHTTP ran)
    sElapsed,   \* seconds since the context of server.Shutdown was created
    sExit,      \* the exit status of the process, -1 while it runs
    sAcceptedAt,\* per connection: sMain when its request was accepted, or "never"
    sDrained    \* the connections whose ServeHTTP returned inside server.Shutdown

svars == <<sMain, sListening, sReq, sElapsed, sExit, sAcceptedAt, sDrained>>

\* the correlation id of one alert of one webhook request
VARIABLES
    kAlert,     \* the alert: Labels, Status, Annotations, StartsAt, EndsAt,
                \* GeneratorURL, Fingerprint
    kExternalURL, \* payload.ExternalURL
    kCfg,       \* the configuration of the replica's Transformer
    kDone,      \* processAlert has computed the id (and Transform has returned)
    kKey,       \* correlationID of processAlert
    kIncidentKey \* the CorrelationID of the incident built for a firing alert

kvars == <<kAlert, kExternalURL, kCfg, kDone, kKey, kIncidentKey>>

vars == <<hvars, rvars, fvars, tvars, bvars, cvars, evars, qvars, svars, kvars>>

(***************************************************************************)
(* Strings                                                                 *)
(***************************************************************************)
Chars == {1, 2}
EmptyStr == << >>
\* the strings used as label keys and values
Strs == {EmptyStr} \cup {<<c>> : c \in Chars} \cup {<<c, d>> : c \in Chars, d \in Chars}

\* Go's < on strings: bytewise lexicographic
RECURSIVE StrLess(_, _)
StrLess(s, t) ==
    IF t = EmptyStr THEN FALSE
    ELSE IF s = EmptyStr THEN TRUE
    ELSE IF Head(s) # Head(t) THEN Head(s) < Head(t)
    ELSE StrLess(Tail(s), Tail(t))

\* insert k into the ascending sequence ks
RECURSIVE InsertSorted(_, _)
InsertSorted(k, ks) ==
    IF ks = << >> THEN <<k>>
    ELSE IF StrLess(Head(ks), k) THEN <<Head(ks)>> \o InsertSorted(k, Tail(ks))
    ELSE <<k>> \o ks

\* a faulty variant: keys are used in the order the map enumerated them
SortStrings_unsorted(ks) == ks

\* sort.Strings(keys)
RECURSIVE SortStrings(_)
SortStrings(ks) ==
    IF ks = << >> THEN << >>
    ELSE InsertSorted(Head(ks), SortStrings(Tail(ks)))

\* the orders in which `for k := range labels` may enumerate the keys
RangeOrders(labels) ==
    LET D == DOMAIN labels
        n == Cardinality(D)
    IN  {o \in [1..n -> D] : \A i, j \in 1..n : i # j => o[i] # o[j]}

\* strings.Builder: alertname, then key and value of every key in keys
RECURSIVE WriteLabels(_, _)
WriteLabels(keys, labels) ==
    IF keys = << >> THEN EmptyStr
    ELSE Head(keys) \o labels[Head(keys)] \o WriteLabels(Tail(keys), labels)

\* hex.EncodeToString(sha256.Sum256(b)[:8]): the digest is an uninterpreted
\* symbol over the hashed bytes
Sha256Hex8(bytes) == <<"sha256:8", bytes>>

\* GenerateCorrelationID(alertname, labels), its map enumerated in order
GenerateCorrelationID(alertname, labels, order) ==
    LET keys == SortStrings(order)
    IN  Sha256Hex8(alertname \o WriteLabels(keys, labels))


\* labels[k] of a Go map: the zero value "" when the key is absent
Label(labels, k) == IF k \in DOMAIN labels THEN labels[k] ELSE EmptyStr

(***************************************************************************)
(* Text: literals are written character by character and held as their    *)
(* ASCII codes                                                             *)
(***************************************************************************)
Lower == <<"a", "b", "c", "d", "e", "f", "g", "h", "i", "j", "k", "l", "m",
           "n", "o", "p", "q", "r", "s", "t", "u", "v", "w", "x", "y", "z">>
Upper == <<"A", "B", "C", "D", "E", "F", "G", "H", "I", "J", "K", "L", "M",
           "N", "O", "P", "Q", "R", "S", "T", "U", "V", "W", "X", "Y", "Z">>
Digits == <<"0", "1", "2", "3", "4", "5", "6", "7", "8", "9">>
Ascii(c) ==
    IF \E i \in 1..26 : Lower[i] = c THEN 96 + (CHOOSE i \in 1..26 : Lower[i] = c)
    ELSE IF \E i \in 1..26 : Upper[i] = c THEN 64 + (CHOOSE i \in 1..26 : Upper[i] = c)
    ELSE IF \E i \in 1..10 : Digits[i] = c THEN 47 + (CHOOSE i \in 1..10 : Digits[i] = c)
    ELSE CASE c = " " -> 32 [] c = "-" -> 45 [] c = "." -> 46 [] c = "/" -> 47
           [] c = ":" -> 58 [] c = "[" -> 91 [] c = "]" -> 93
Lit(s) == [i \in 1..Len(s) |-> Ascii(s[i])]

IsLetter(c) == c \in 97..122 \/ c \in 65..90
IsDigit(c) == c \in 48..57

\* strings.HasPrefix(s, prefix)
HasPrefix(s, prefix) ==
    Len(s) >= Len(prefix) /\ SubSeq(s, 1, Len(prefix)) = prefix

\* strings.Index(s, sub): the offset (from 0) of the first occurrence, or -1
Index(s, sub) ==
    LET at == {i \in 0..(Len(s) - Len(sub)) : SubSeq(s, i + 1, i + Len(sub)) = sub}
    IN  IF at = {} THEN -1 ELSE CHOOSE i \in at : \A j \in at : i <= j

\* strings.LastIndex(s, sub)
LastIndex(s, sub) ==
    LET at == {i \in 0..(Len(s) - Len(sub)) : SubSeq(s, i + 1, i + Len(sub)) = sub}
    IN  IF at = {} THEN -1 ELSE CHOOSE i \in at : \A j \in at : i >= j

\* s[from:] and s[:to] of Go, offsets from 0
From(s, from) == SubSeq(s, from + 1, Len(s))
Upto(s, to) == SubSeq(s, 1, to)

(***************************************************************************)
(* net/url for URLs without userinfo, query, fragment, escapes and IPv6    *)
(* literals: Parse and Hostname                                            *)
(***************************************************************************)
\* stringContainsCTLByte
HasCTLByte(s) == \E i \in 1..Len(s) : s[i] < 32 \/ s[i] = 127

\* getScheme: [scheme, rest, err]
RECURSIVE SchemeScan(_, _)
SchemeScan(raw, i) ==
    IF i > Len(raw) THEN [scheme |-> EmptyStr, rest |-> raw, err |-> FALSE]
    ELSE IF IsLetter(raw[i]) THEN SchemeScan(raw, i + 1)
    ELSE IF IsDigit(raw[i]) \/ raw[i] \in {43, 45, 46}
         THEN IF i = 1 THEN [scheme |-> EmptyStr, rest |-> raw, err |-> FALSE]
              ELSE SchemeScan(raw, i + 1)
    ELSE IF raw[i] = 58
         THEN IF i = 1 THEN [scheme |-> EmptyStr, rest |-> EmptyStr, err |-> TRUE]
              ELSE [scheme |-> Upto(raw, i - 1), rest |-> From(raw, i), err |-> FALSE]
    ELSE [scheme |-> EmptyStr, rest |-> raw, err |-> FALSE]
getScheme(raw) == SchemeScan(raw, 1)

\* validOptionalPort: "" or ":" followed by digits
validOptionalPort(port) ==
    port = EmptyStr \/ (port[1] = 58 /\ \A i \in 2..Len(port) : IsDigit(port[i]))

\* parseHost accepts the host: a valid port after the last colon, and no
\* character that must be escaped in a host
HostAccepted(host) ==
    /\ LET i == LastIndex(host, <<58>>)
       IN  i # -1 => validOptionalPort(From(host, i))
    /\ \A k \in 1..Len(host) :
            IsLetter(host[k]) \/ IsDigit(host[k]) \/ host[k] \in {45, 46, 58}

\* url.Parse(rawURL): [err, Host]
ParseURL(raw) ==
    IF HasCTLByte(raw) THEN [err |-> TRUE, Host |-> EmptyStr]
    ELSE LET sch == getScheme(raw)
             rest == sch.rest
         IN  IF sch.err THEN [err |-> TRUE, Host |-> EmptyStr]
             ELSE IF ~HasPrefix(rest, <<47>>) /\ sch.scheme # EmptyStr
             THEN [err |-> FALSE, Host |-> EmptyStr]
             ELSE IF ~HasPrefix(rest, <<47>>) /\ rest # EmptyStr
                     /\ LET cut == Index(rest, <<47>>)
                            segment == IF cut = -1 THEN rest ELSE Upto(rest, cut)
                        IN  Index(segment, <<58>>) # -1
             THEN [err |-> TRUE, Host |-> EmptyStr]
             ELSE IF HasPrefix(rest, <<47, 47>>)
                     /\ (sch.scheme # EmptyStr \/ ~HasPrefix(rest, <<47, 47, 47>>))
             THEN LET after == From(rest, 2)
                      i == Index(after, <<47>>)
                      authority == IF i >= 0 THEN Upto(after, i) ELSE after
                  IN  IF HostAccepted(authority)
                      THEN [err |-> FALSE, Host |-> authority]
                      ELSE [err |-> TRUE, Host |-> EmptyStr]
             ELSE [err |-> FALSE, Host |-> EmptyStr]

\* (*URL).Hostname(): the host without a valid port
Hostname(host) ==
    LET colon == LastIndex(host, <<58>>)
    IN  IF colon # -1 /\ validOptionalPort(From(host, colon))
        THEN Upto(host, colon) ELSE host

(***************************************************************************)
(* The Transformer                                                         *)
(***************************************************************************)
DotAppsDot == Lit(<<".", "a", "p", "p", "s", ".">>)
UnknownCluster == Lit(<<"u", "n", "k", "n", "o", "w", "n", "-", "c", "l", "u", "s", "t", "e", "r">>)
InNamespace == Lit(<<" ", "i", "n", " ", "n", "a", "m", "e", "s", "p", "a", "c", "e", ":", " ">>)
\* the label keys "alertname" (written as one byte in the model) and "namespace"
AlertnameKey == <<1>>
NamespaceKey == Lit(<<"n", "a", "m", "e", "s", "p", "a", "c", "e">>)
\* the default of cfg.ClusterLabelKey
ClusterKey == Lit(<<"c", "l", "u", "s", "t", "e", "r">>)

\* a faulty variant: the cluster name runs to the last dot of the hostname
extractClusterFromURL_lastDot(rawURL) ==
    LET parsed_ == ParseURL(rawURL)
        host == Hostname(parsed_.Host)
        appsIdx == Index(host, DotAppsDot)
        afterApps == From(host, appsIdx + 6)
        dotIdx == LastIndex(afterApps, <<46>>)
    IN  IF parsed_.err THEN EmptyStr
        ELSE IF appsIdx = -1 THEN EmptyStr
        ELSE IF dotIdx = -1 THEN afterApps
        ELSE Upto(afterApps, dotIdx)
\* extractClusterFromURL(rawURL)
extractClusterFromURL(rawURL) ==
    LET parsed_ == ParseURL(rawURL)
        host == Hostname(parsed_.Host)
        appsIdx == Index(host, DotAppsDot)
        afterApps == From(host, appsIdx + 6)
        dotIdx == Index(afterApps, <<46>>)
    IN  IF parsed_.err THEN EmptyStr
        ELSE IF appsIdx = -1 THEN EmptyStr
        ELSE IF dotIdx = -1 THEN afterApps
        ELSE Upto(afterApps, dotIdx)

\* a faulty variant: the URL is tried before the label
extractClusterName_urlFirst(alert, tc) ==
    IF alert.GeneratorURL # EmptyStr /\ extractClusterFromURL(alert.GeneratorURL) # EmptyStr
    THEN extractClusterFromURL(alert.GeneratorURL)
    ELSE Label(alert.Labels, tc.ClusterLabelKey)
\* (*Transformer).extractClusterName(alert)
extractClusterName(alert, tc) ==
    IF Label(alert.Labels, tc.ClusterLabelKey) # EmptyStr
    THEN Label(alert.Labels, tc.ClusterLabelKey)
    ELSE IF alert.GeneratorURL # EmptyStr
            /\ extractClusterFromURL(alert.GeneratorURL) # EmptyStr
    THEN extractClusterFromURL(alert.GeneratorURL)
    ELSE EmptyStr

\* a faulty variant: an empty cluster name is printed as it is
buildShortDescription_raw(cluster, alertname, namespace) ==
    IF namespace # EmptyStr
    THEN <<91>> \o cluster \o <<93, 32>> \o alertname \o InNamespace \o namespace
    ELSE <<91>> \o cluster \o <<93, 32>> \o alertname
\* (*Transformer).buildShortDescription(cluster, alertname, namespace)
buildShortDescription(cluster, alertname, namespace) ==
    LET c == IF cluster = EmptyStr THEN UnknownCluster ELSE cluster
    IN  IF namespace # EmptyStr
        THEN <<91>> \o c \o <<93, 32>> \o alertname \o InNamespace \o namespace
        ELSE <<91>> \o c \o <<93, 32>> \o alertname

AlertColon == Lit(<<"A", "l", "e", "r", "t", ":", " ">>)
ClusterColon == Lit(<<"C", "l", "u", "s", "t", "e", "r", ":", " ">>)

\* a faulty variant: the description names an unknown cluster as the short
\* description does
buildDescription_unknown(alert, cluster) ==
    << AlertColon \o Label(alert.Labels, AlertnameKey),
       ClusterColon \o (IF cluster = EmptyStr THEN UnknownCluster ELSE cluster) >>
\* (*Transformer).buildDescription: the lines "Alert:" and "Cluster:" that
\* open the description
buildDescription(alert, cluster) ==
    << AlertColon \o Label(alert.Labels, AlertnameKey),
       ClusterColon \o cluster >>

\* a faulty variant: the correlation id is taken over the alert name alone
TransformCorrelationID_nameOnly(alert, order) ==
    GenerateCorrelationID(Label(alert.Labels, AlertnameKey), << >>, << >>)
\* correlationID := GenerateCorrelationID(alertname, alert.Labels) of Transform
TransformCorrelationID(alert, order) ==
    GenerateCorrelationID(Label(alert.Labels, AlertnameKey), alert.Labels, order)

\* a faulty variant: the cluster is taken from the external URL when the
\* alert gives none
Transform_external(alert, externalURL, tc, order) ==
    LET alertname == Label(alert.Labels, AlertnameKey)
        cluster == IF extractClusterName(alert, tc) # EmptyStr
                   THEN extractClusterName(alert, tc)
                   ELSE extractClusterFromURL(externalURL)
        namespace == Label(alert.Labels, NamespaceKey)
    IN  [ShortDescription |-> buildShortDescription(cluster, alertname, namespace),
         Description |-> buildDescription(alert, cluster),
         CorrelationID |-> TransformCorrelationID(alert, order)]
\* (*Transformer).Transform(alert, externalURL), the label map enumerated in order
Transform(alert, externalURL, tc, order) ==
    LET alertname == Label(alert.Labels, AlertnameKey)
        cluster == extractClusterName(alert, tc)
        namespace == Label(alert.Labels, NamespaceKey)
    IN  [ShortDescription |-> buildShortDescription(cluster, alertname, namespace),
         Description |-> buildDescription(alert, cluster),
         CorrelationID |-> TransformCorrelationID(alert, order)]

(***************************************************************************)
(* The webhook handler and the incident table of the external system       *)
(***************************************************************************)
\* the label maps of the alerts in the model: two alerts of different names
LabelsA == (AlertnameKey :> <<1>>)
LabelsB == (AlertnameKey :> <<2>>) @@ (<<2>> :> <<1>>)
\* the alerts of the model: A firing, resolved or of another status, B firing
Alerts == {[Status |-> "firing", Labels |-> LabelsA, GeneratorURL |-> EmptyStr],
           [Status |-> "firing", Labels |-> LabelsB, GeneratorURL |-> EmptyStr],
           [Status |-> "resolved", Labels |-> LabelsA, GeneratorURL |-> EmptyStr],
           [Status |-> "unknown", Labels |-> LabelsA, GeneratorURL |-> EmptyStr]}
\* the configuration of the handler's Transformer
HandlerCfg == [ClusterLabelKey |-> ClusterKey]
\* DefaultRetryConfig(), in seconds
DefaultRetryConfig == [MaxAttempts |-> 3, BaseDelay |-> 1, MaxDelay |-> 10]
\* NewHandler(NewClient(cfg, logger), NewTransformer(cfg), logger)
NewHandler == [transformer |-> HandlerCfg, retryConfig |-> DefaultRetryConfig]
\* the longest batch of each request
MaxBatch == [r \in Reqs |-> IF r = "r1" THEN MaxAlerts ELSE MaxOther]
Batches(r) == UNION {[1..n -> Alerts] : n \in 0..MaxBatch[r]}
Methods == {"POST", "GET"}
\* a request body: unreadable, not JSON, or a payload with its alerts
Bodies(r) == {[kind |-> "unreadable", Alerts |-> << >>], [kind |-> "malformed", Alerts |-> << >>]}
            \cup {[kind |-> "json", Alerts |-> b] : b \in Batches(r)}

\* the nil *models.ServiceNowResult
Nil == [SysID |-> 0, State |-> "", CorrelationID |-> << >>]
StateNew == "1"
StateResolved == "6"


\* the records of the table with the given correlation_id
Matching(corr) == {i \in 1..Len(incidents) : incidents[i].CorrelationID = corr}
\* record i as a models.ServiceNowResult
Record(i) == [SysID |-> i, State |-> incidents[i].State,
              CorrelationID |-> incidents[i].CorrelationID]

\* sysparm_limit of the lookup's query
SysparmLimit == 1
\* the result lists a 2xx answer to the lookup can carry: records with the
\* correlation_id, at most SysparmLimit of them
LookupLists(corr) ==
    IF Matching(corr) = {} THEN {<< >>}
    ELSE {<<Record(i)>> : i \in Matching(corr)}

\* a faulty variant: an empty result list is an error
LookupResult_notFound(list) ==
    [rec |-> IF Len(list) > 0 THEN list[1] ELSE Nil, err |-> Len(list) = 0]
\* FindIncidentByCorrelationID after a decoded 2xx answer: the first record, or nil
LookupResult(list) ==
    [rec |-> IF Len(list) > 0 THEN list[1] ELSE Nil, err |-> FALSE]

\* a faulty variant: every record with the target's correlation_id is resolved
ApplyResolve_byKey(tbl, sysID) ==
    [i \in 1..Len(tbl) |->
        IF sysID \in 1..Len(tbl) /\ tbl[i].CorrelationID = tbl[sysID].CorrelationID
        THEN [tbl[i] EXCEPT !.State = StateResolved] ELSE tbl[i]]
\* the external system serving the PATCH of ResolveIncident(sysID)
ApplyResolve(tbl, sysID) ==
    IF sysID \in 1..Len(tbl)
    THEN [tbl EXCEPT ![sysID].State = StateResolved] ELSE tbl

\* a faulty variant: the method is not looked at
RejectStatus_anyMethod(m, kind) == IF kind # "json" THEN 400 ELSE 0
\* ServeHTTP before the loop: the status of the rejection, 0 for none
RejectStatus(m, kind) ==
    IF m # "POST" THEN 405 ELSE IF kind # "json" THEN 400 ELSE 0

\* a faulty variant: the slice is walked from its end
RangeIndex_backwards(p, n) == n + 1 - p
\* `for _, alert := range payload.Alerts`: the index of iteration p over n alerts
RangeIndex(p, n) == p
\* the index of the alert request r is at
Cur(r) == RangeIndex(pos[r], Len(alerts[r]))

\* a faulty variant: the record found is kept in a field of the Handler
Slot_shared(r) == "r1"
\* existing is a local variable of handleResolvedAlert: one per request
Slot(r) == r

\* a faulty variant: the error of ResolveIncident is logged and dropped
ResolveFailed_dropped(out) == FALSE
\* `if err := h.snowClient.ResolveIncident(...); err != nil { return err }`
ResolveFailed(out) == out = "err"

\* a faulty variant: an unsupported status is an error
DefaultCase_unsupported(status) == TRUE
\* processAlert's default case returns nil: whether the alert failed
DefaultCase(status) == FALSE

\* what a client call returns to the handler: success, or an error (a 4xx
\* answer, retries exhausted, the request's context cancelled)
CallOutcomes == {"ok", "err"}

\* a faulty variant: the loop stops at the first alert that failed
AfterAlert_break(p, n, failed) == IF failed THEN n + 1 ELSE p + 1
\* `for _, alert := range payload.Alerts`: the next position after alert p of n
AfterAlert(p, n, failed) == p + 1

\* a faulty variant: failures are reported to Alertmanager
ResponseStatus_failed(errs) == IF errs > 0 THEN 500 ELSE 200
\* w.WriteHeader(http.StatusOK) after the loop
ResponseStatus(errs) == 200

\* a faulty variant: a resolved alert without an incident is an error
AfterLookup_strict(ex) ==
    IF ex = Nil THEN [next |-> "return", err |-> TRUE] ELSE [next |-> "resolve", err |-> FALSE]
\* handleResolvedAlert after a successful lookup: existing == nil returns nil
AfterLookup(ex) ==
    IF ex = Nil THEN [next |-> "return", err |-> FALSE] ELSE [next |-> "resolve", err |-> FALSE]

\* a faulty variant: the first record of the table is resolved, whatever was found
ResolveTarget_first(ex) == 1
\* the argument of h.snowClient.ResolveIncident(ctx, existing.SysID)
ResolveTarget(ex) == ex.SysID

\* the loop body's end: count the failure, go on to the next alert
\* a faulty variant: a flag is set where the failures are to be counted
CountFailure_flag(n, failed) == IF failed THEN 1 ELSE n
\* `if err := h.processAlert(...); err != nil { ...; errCount++ }`
CountFailure(n, failed) == IF failed THEN n + 1 ELSE n

Advance(r, failed) ==
    /\ errCount' = [errCount EXCEPT ![r] = CountFailure(@, failed)]
    /\ pos' = [pos EXCEPT ![r] = AfterAlert(pos[r], Len(alerts[r]), failed)]
    /\ pc' = [pc EXCEPT ![r] = "loop"]

HInit ==
    /\ pc = [r \in Reqs |-> "idle"]
    /\ method = [r \in Reqs |-> "POST"]
    /\ parsed = [r \in Reqs |-> FALSE]
    /\ alerts = [r \in Reqs |-> << >>]
    /\ pos = [r \in Reqs |-> 1]
    /\ errCount = [r \in Reqs |-> 0]
    /\ code = [r \in Reqs |-> 0]
    /\ existing = [r \in Reqs |-> Nil]
    /\ calls = [r \in Reqs |-> << >>]
    /\ incidents = << >>
    /\ snap = [r \in Reqs |-> {}]
    /\ owed = {}
    /\ handler = NewHandler

\* ServeHTTP up to the loop: method check, body read, json.Unmarshal
ServeHTTP(r) ==
    /\ UNCHANGED <<rvars, fvars, tvars, bvars, handler, cvars, evars, qvars, svars, kvars>>
    /\ pc[r] = "idle"
    /\ \E m \in Methods, b \in Bodies(r) :
        /\ method' = [method EXCEPT ![r] = m]
        /\ IF RejectStatus(m, b.kind) # 0
           THEN /\ code' = [code EXCEPT ![r] = RejectStatus(m, b.kind)]
                /\ pc' = [pc EXCEPT ![r] = "done"]
                /\ UNCHANGED <<parsed, alerts>>
           ELSE /\ parsed' = [parsed EXCEPT ![r] = TRUE]
                /\ alerts' = [alerts EXCEPT ![r] = b.Alerts]
                /\ pc' = [pc EXCEPT ![r] = "loop"]
                /\ UNCHANGED code
    /\ UNCHANGED <<pos, errCount, existing, calls, incidents, snap, owed>>

\* processAlert of a firing alert: handleFiringAlert, Transform, CreateIncident
HandleFiringAlert(r) ==
    /\ UNCHANGED <<rvars, fvars, tvars, bvars, handler, cvars, evars, qvars, svars, kvars>>
    /\ pc[r] = "loop" /\ pos[r] <= Len(alerts[r])
    /\ alerts[r][Cur(r)].Status = "firing"
    /\ LET alert == alerts[r][Cur(r)]
       IN  \E order \in RangeOrders(alert.Labels), out \in CallOutcomes :
            LET incident == Transform(alert, EmptyStr, handler.transformer, order)
            IN  /\ calls' = [calls EXCEPT ![r] = Append(@,
                        [op |-> "CreateIncident", idx |-> Cur(r),
                         key |-> incident.CorrelationID, sysID |-> 0,
                         out |-> out, got |-> << >>,
                         err |-> (out = "err")])]
                /\ incidents' = IF out = "ok"
                                THEN Append(incidents,
                                        [CorrelationID |-> incident.CorrelationID,
                                         State |-> StateNew])
                                ELSE incidents
                /\ Advance(r, out = "err")
    /\ UNCHANGED <<method, parsed, alerts, code, existing, snap, owed>>

\* processAlert of a resolved alert up to the lookup's return
HandleResolvedAlert(r) ==
    /\ UNCHANGED <<rvars, fvars, tvars, bvars, handler, cvars, evars, qvars, svars, kvars>>
    /\ pc[r] = "loop" /\ pos[r] <= Len(alerts[r])
    /\ alerts[r][Cur(r)].Status = "resolved"
    /\ LET alert == alerts[r][Cur(r)]
           alertname == Label(alert.Labels, AlertnameKey)
       IN  \E order \in RangeOrders(alert.Labels), out \in CallOutcomes :
            LET correlationID == GenerateCorrelationID(alertname, alert.Labels, order)
                found == Matching(correlationID)
            IN  \E list \in (IF out = "err" THEN {<< >>} ELSE LookupLists(correlationID)) :
                  LET ex == LookupResult(list).rec
                      failed == out = "err" \/ LookupResult(list).err
                  IN
                  /\ calls' = [calls EXCEPT ![r] = Append(@,
                        [op |-> "FindIncidentByCorrelationID", idx |-> Cur(r),
                         key |-> correlationID,
                         sysID |-> IF failed THEN 0 ELSE ex.SysID,
                         out |-> out, got |-> list,
                         err |-> failed])]
                  /\ IF failed
                     THEN /\ Advance(r, TRUE)
                          /\ UNCHANGED <<existing, snap, owed>>
                     ELSE IF AfterLookup(ex).next = "return"
                     THEN /\ Advance(r, AfterLookup(ex).err)
                          /\ UNCHANGED <<existing, snap, owed>>
                     ELSE /\ existing' = [existing EXCEPT ![Slot(r)] = ex]
                          /\ snap' = [snap EXCEPT ![r] = found]
                          /\ pc' = [pc EXCEPT ![r] = "resolve"]
                          /\ UNCHANGED <<pos, errCount, owed>>
    /\ UNCHANGED <<method, parsed, alerts, code, incidents>>

\* handleResolvedAlert from the ResolveIncident call to its return
ResolveExisting(r) ==
    /\ UNCHANGED <<rvars, fvars, tvars, bvars, handler, cvars, evars, qvars, svars, kvars>>
    /\ pc[r] = "resolve"
    /\ \E out \in CallOutcomes :
        LET sysID == ResolveTarget(existing[Slot(r)])
        IN  /\ calls' = [calls EXCEPT ![r] = Append(@,
                    [op |-> "ResolveIncident", idx |-> Cur(r),
                     key |-> << >>, sysID |-> sysID,
                     out |-> out, got |-> << >>, err |-> (out = "err")])]
            /\ incidents' = IF out = "ok" THEN ApplyResolve(incidents, sysID)
                            ELSE incidents
            /\ owed' = IF out = "ok" THEN owed \cup snap[r] ELSE owed
            /\ Advance(r, ResolveFailed(out))
    /\ existing' = [existing EXCEPT ![Slot(r)] = Nil]
    /\ snap' = [snap EXCEPT ![r] = {}]
    /\ UNCHANGED <<method, parsed, alerts, code>>

\* processAlert of an alert of any other status: a warning, no call
HandleUnknownStatus(r) ==
    /\ UNCHANGED <<rvars, fvars, tvars, bvars, handler, cvars, evars, qvars, svars, kvars>>
    /\ pc[r] = "loop" /\ pos[r] <= Len(alerts[r])
    /\ alerts[r][Cur(r)].Status \notin {"firing", "resolved"}
    /\ Advance(r, DefaultCase(alerts[r][Cur(r)].Status))
    /\ UNCHANGED <<method, parsed, alerts, code, existing, calls,
                   incidents, snap, owed>>

\* ServeHTTP after the loop: the response
Respond(r) ==
    /\ UNCHANGED <<rvars, fvars, tvars, bvars, handler, cvars, evars, qvars, svars, kvars>>
    /\ pc[r] = "loop" /\ pos[r] > Len(alerts[r])
    /\ code' = [code EXCEPT ![r] = ResponseStatus(errCount[r])]
    /\ pc' = [pc EXCEPT ![r] = "done"]
    /\ UNCHANGED <<method, parsed, alerts, pos, errCount, existing,
                   calls, incidents, snap, owed>>

HNext ==
    \E r \in Reqs :
        \/ ServeHTTP(r)
        \/ HandleFiringAlert(r)
        \/ HandleResolvedAlert(r)
        \/ ResolveExisting(r)
        \/ HandleUnknownStatus(r)
        \/ Respond(r)


(***************************************************************************)
(* WithRetry                                                               *)
(***************************************************************************)
\* what fn returns: nil, a *RetryableError with its status code, or an
\* unclassified (transport-level) error; CtxErr is ctx.Err()
NoErr == [kind |-> "nil", StatusCode |-> 0]
TransportErr == [kind |-> "transport", StatusCode |-> 0]
CtxErr == [kind |-> "ctx", StatusCode |-> 0]
StatusCodes == {302, 400, 499, 500, 503}
StatusErr(c) == [kind |-> "status", StatusCode |-> c]
\* the three-digit status codes a response can carry
HTTPStatuses == 100..599

\* a faulty variant: only client and server errors are classified
checkResponse_errorsOnly(status) ==
    IF status >= 200 /\ status < 400 THEN NoErr ELSE StatusErr(status)
\* (*Client).checkResponse(resp): nil, or a *RetryableError with the status code
checkResponse(status) ==
    IF status >= 200 /\ status < 300 THEN NoErr ELSE StatusErr(status)

\* the error of a closure that could not read or parse the body of a response
\* ("failed to read response", "failed to unmarshal response"): unclassified
BodyErr == [kind |-> "body", StatusCode |-> 0]
\* the client operations that run their requests under WithRetry
ClientOps == {"CreateIncident", "FindIncidentByCorrelationID", "ResolveIncident"}
\* what one c.httpClient.Do meets: no response (status 0), or a response with
\* its status and a body that can be read and parsed ("ok") or not ("bad")
Exchanges ==
    {[status |-> 0, body |-> "none"], [status |-> 200, body |-> "bad"]}
        \cup {[status |-> c, body |-> "ok"] : c \in StatusCodes \cup {200}}

\* the closure the operation op passes to WithRetry, on the exchange x:
\* "failed to send request", the error of checkResponse, the error of
\* io.ReadAll or json.Unmarshal (ResolveIncident does not read the body), nil
attemptResult(op, x) ==
    IF x.status = 0 THEN TransportErr
    ELSE IF checkResponse(x.status) # NoErr THEN checkResponse(x.status)
    ELSE IF op # "ResolveIncident" /\ x.body = "bad" THEN BodyErr
    ELSE NoErr

FnResults == {attemptResult(op, x) : op \in ClientOps, x \in Exchanges}

\* the configurations tried: MaxAttempts, BaseDelay, MaxDelay
RetryConfigs == [MaxAttempts : 0..MaxTries, BaseDelay : {0, 1}, MaxDelay : {1, 3}]

RECURSIVE Pow2(_)
Pow2(n) == IF n <= 0 THEN 1 ELSE 2 * Pow2(n - 1)

\* time.Duration is a signed integer of DurationBits bits (64 in Go, fewer
\* here so that the doubling leaves the range within a few attempts)
DurationBits == 6
MaxDuration == Pow2(DurationBits - 1) - 1
MinDuration == 0 - Pow2(DurationBits - 1)

\* time.Duration(x) of a float64 x: the value when the type can hold it,
\* otherwise implementation-dependent: the smallest value (amd64) or the
\* nearest bound (arm64)
ToDuration(x) ==
    IF x > MaxDuration THEN {MinDuration, MaxDuration}
    ELSE IF x < MinDuration THEN {MinDuration}
    ELSE {x}

\* calculateBackoff(attempt, baseDelay, maxDelay): the delays the call can return
calculateBackoff(a, baseDelay, maxDelay) ==
    {IF delay > maxDelay THEN maxDelay ELSE delay :
        delay \in ToDuration(baseDelay * Pow2(a))}

\* IsRetryable(err): a *RetryableError is retryable when its status is at
\* least 500, any other error is
IsRetryable(e) == IF e.kind = "status" THEN e.StatusCode >= 500 ELSE TRUE

\* a faulty variant: 400 itself is retried
IsClientStatus_above(e) == e.kind = "status" /\ e.StatusCode > 400 /\ e.StatusCode < 500
\* errors.As(lastErr, &retryableErr) && 400 <= StatusCode < 500
IsClientStatus(e) == e.kind = "status" /\ e.StatusCode >= 400 /\ e.StatusCode < 500

\* a faulty variant: the loop allows one attempt more
MoreAttempts_extra(a, maxAttempts) == a <= maxAttempts
\* the loop condition attempt < cfg.MaxAttempts
MoreAttempts(a, maxAttempts) == a < maxAttempts

\* a faulty variant: nil is not told from an error
ReturnsNil_never(e) == FALSE
\* lastErr == nil
ReturnsNil(e) == e = NoErr

\* a faulty variant: the select is entered after the last attempt too
WaitsAfter_always(a, maxAttempts) == TRUE
\* "Don't sleep after the last attempt": attempt < cfg.MaxAttempts-1
WaitsAfter(a, maxAttempts) == a < maxAttempts - 1

\* a faulty variant: the loop counter is left as it is
NextAttempt_same(a) == a
\* attempt++
NextAttempt(a) == a + 1

\* a faulty variant: a blocking sleep, the context is not looked at
SelectReady_sleep(done, delay) == IF delay <= 0 THEN {"timer"} ELSE {}
\* the cases of the select that are ready when it is entered: ctx.Done() of a
\* cancelled context, time.After(delay) of a delay that is not positive
SelectReady(done, delay) ==
    (IF done THEN {"ctx"} ELSE {}) \cup (IF delay <= 0 THEN {"timer"} ELSE {})


RStart(c, op) ==
    /\ cfg = c
    /\ rop = op
    /\ sent = << >>
    /\ rpc = "loop"
    /\ attempt = 0
    /\ lastErr = NoErr
    /\ ret = NoErr
    /\ fnLog = << >>
    /\ waits = << >>
    /\ cancelled = FALSE
    /\ wake = "none"
    /\ cancelAt = -1

RInit == \E c \in RetryConfigs, op \in ClientOps : RStart(c, op)

Return(e) ==
    /\ rpc' = "returned"
    /\ ret' = e

\* one pass of the loop body: fn, the classification, the entry of the select
Attempt ==
    /\ UNCHANGED <<hvars, fvars, tvars, bvars, cvars, evars, qvars, svars, kvars>>
    /\ rpc = "loop" /\ MoreAttempts(attempt, cfg.MaxAttempts)
    /\ \E x \in Exchanges : LET e == attemptResult(rop, x) IN
        /\ sent' = Append(sent, x)
        /\ lastErr' = e
        /\ fnLog' = Append(fnLog, e)
        /\ IF ReturnsNil(e)
           THEN /\ Return(NoErr)
                /\ UNCHANGED <<attempt, waits, wake>>
           ELSE IF IsClientStatus(e)
           THEN /\ Return(e)
                /\ UNCHANGED <<attempt, waits, wake>>
           ELSE IF WaitsAfter(attempt, cfg.MaxAttempts)
           THEN \E delay \in calculateBackoff(attempt, cfg.BaseDelay, cfg.MaxDelay) :
                    LET ready == SelectReady(cancelled, delay)
                    IN  /\ waits' = Append(waits, delay)
                        /\ rpc' = "select"
                        /\ wake' \in (IF ready = {} THEN {"none"} ELSE ready)
                        /\ UNCHANGED <<attempt, ret>>
           ELSE /\ attempt' = NextAttempt(attempt)
                /\ rpc' = "loop"
                /\ UNCHANGED <<ret, waits, wake>>
    /\ UNCHANGED <<cfg, cancelled, cancelAt, rop>>

\* the loop condition fails: return lastErr
ReturnLast ==
    /\ UNCHANGED <<hvars, fvars, tvars, bvars, cvars, evars, qvars, svars, kvars>>
    /\ rpc = "loop" /\ ~MoreAttempts(attempt, cfg.MaxAttempts)
    /\ Return(lastErr)
    /\ UNCHANGED <<cfg, attempt, lastErr, fnLog, waits, cancelled, wake, cancelAt, rop, sent>>

\* time.After(delay) fires while the goroutine waits in the select
TimerFires ==
    /\ UNCHANGED <<hvars, fvars, tvars, bvars, cvars, evars, qvars, svars, kvars>>
    /\ rpc = "select" /\ wake = "none"
    /\ wake' = "timer"
    /\ UNCHANGED <<cfg, rpc, attempt, lastErr, ret, fnLog, waits, cancelled, cancelAt, rop, sent>>

\* the caller's context is cancelled or times out
CancelCtx ==
    /\ UNCHANGED <<hvars, fvars, tvars, bvars, cvars, evars, qvars, svars, kvars>>
    /\ rpc # "returned" /\ ~cancelled
    /\ cancelled' = TRUE
    /\ IF rpc = "select" /\ wake = "none"
       THEN /\ wake' = IF "ctx" \in SelectReady(TRUE, 1) THEN "ctx" ELSE wake
            /\ cancelAt' = Len(fnLog)
       ELSE UNCHANGED <<wake, cancelAt>>
    /\ UNCHANGED <<cfg, rpc, attempt, lastErr, ret, fnLog, waits, rop, sent>>

\* the goroutine runs the case that woke it
Select ==
    /\ UNCHANGED <<hvars, fvars, tvars, bvars, cvars, evars, qvars, svars, kvars>>
    /\ rpc = "select" /\ wake # "none"
    /\ IF wake = "ctx"
       THEN /\ Return(CtxErr)
            /\ UNCHANGED attempt
       ELSE /\ attempt' = NextAttempt(attempt)
            /\ rpc' = "loop"
            /\ UNCHANGED ret
    /\ wake' = "none"
    /\ UNCHANGED <<cfg, lastErr, fnLog, waits, cancelled, cancelAt, rop, sent>>

RNext == Attempt \/ ReturnLast \/ TimerFires \/ CancelCtx \/ Select

(***************************************************************************)
(* checkResponse on arbitrary status codes                                 *)
(***************************************************************************)
CStart(st) ==
    /\ cStatus = st
    /\ cDone = FALSE
    /\ cErr = NoErr

CInit == \E st \in HTTPStatuses : CStart(st)

\* one call checkResponse(resp) with resp.StatusCode = cStatus
CheckResponse ==
    /\ UNCHANGED <<hvars, rvars, fvars, tvars, bvars, evars, qvars, svars, kvars>>
    /\ ~cDone
    /\ cErr' = checkResponse(cStatus)
    /\ cDone' = TRUE
    /\ UNCHANGED cStatus


(***************************************************************************)
(* GenerateCorrelationID on arbitrary names and label maps                 *)
(***************************************************************************)
\* most labels of a map
MaxLabels == 2
LabelKeys == {<<1>>, <<2>>, <<1, 2>>, <<2, 1>>}
LabelValues == {EmptyStr, <<1>>, <<2>>}
AlertNames == {EmptyStr, <<1>>, <<1, 2>>}
LabelMaps == UNION {[D -> LabelValues] : D \in {K \in SUBSET LabelKeys : Cardinality(K) <= MaxLabels}}


FStart(n, l) ==
    /\ fpName = n
    /\ fpLabels = l
    /\ fpOrders = << >>
    /\ fpIds = << >>

FInit == \E n \in AlertNames, l \in LabelMaps : FStart(n, l)

\* one call GenerateCorrelationID(fpName, fpLabels)
Generate ==
    /\ UNCHANGED <<hvars, rvars, tvars, bvars, cvars, evars, qvars, svars, kvars>>
    /\ Len(fpIds) < MaxCalls
    /\ \E order \in RangeOrders(fpLabels) :
        /\ fpOrders' = Append(fpOrders, order)
        /\ fpIds' = Append(fpIds, GenerateCorrelationID(fpName, fpLabels, order))
    /\ UNCHANGED <<fpName, fpLabels>>


(***************************************************************************)
(* calculateBackoff on arbitrary attempts and delays                       *)
(***************************************************************************)
\* the largest attempt index
MaxAttemptIdx == 6
BaseDelays == {0, 1, 3}
MaxDelays == {1, 3, 10}

BStart(a, base, max) ==
    /\ bAttempt = a
    /\ bBase = base
    /\ bMax = max
    /\ bDone = FALSE
    /\ bDelay = 0

BInit == \E a \in 0..MaxAttemptIdx, base \in BaseDelays, max \in MaxDelays :
            BStart(a, base, max)

\* one call calculateBackoff(bAttempt, bBase, bMax)
Backoff ==
    /\ UNCHANGED <<hvars, rvars, fvars, tvars, cvars, evars, qvars, svars, kvars>>
    /\ ~bDone
    /\ bDelay' \in calculateBackoff(bAttempt, bBase, bMax)
    /\ bDone' = TRUE
    /\ UNCHANGED <<bAttempt, bBase, bMax>>


(***************************************************************************)
(* Transform on arbitrary alerts                                           *)
(***************************************************************************)
Https == Lit(<<"h", "t", "t", "p", "s", ":", "/", "/">>)
\* generator URLs: cluster hosts with a path, with a port, without a
\* domain, with nothing after ".apps."; hosts without ".apps."; ".apps." in
\* the path only; no URL; text that is no URL; a host and a URL that
\* url.Parse rejects
GeneratorURLs ==
    { Https \o Lit(<<"c", ".", "a", "p", "p", "s", ".", "o", "s", "-", "l", "b", "3", ".", "c", "o", "r", "p", "/", "a">>),
      Https \o Lit(<<"p", ".", "a", "p", "p", "s", ".", "m", "y", ".", "i", "o", ":", "9", "0", "/", "g">>),
      Https \o Lit(<<"a", ".", "a", "p", "p", "s", ".", "t", "c">>),
      Https \o Lit(<<"a", ".", "a", "p", "p", "s", ".", "t", "c", ":", "8", "0">>),
      Https \o Lit(<<"a", ".", "a", "p", "p", "s", ".">>),
      Https \o Lit(<<"p", ".", "e", "x", ".", "c", "o", "m", "/", "g">>),
      Https \o Lit(<<"x", ".", "i", "o", "/", ".", "a", "p", "p", "s", ".", "y", ".", "z">>),
      EmptyStr,
      Lit(<<"n", "o", "t", "-", "a", "-", "u", "r", "l">>),
      Lit(<<"a", ".", "a", "p", "p", "s", ".", "t", "c", ".", "i", "o">>),
      Https \o Lit(<<"a", ".", "a", "p", "p", "s", ".", "t", " ", "c", ".", "i", "o">>),
      Https \o Lit(<<"a", ".", "a", "p", "p", "s", ".", "t", "c", ".", "i", "o", "/">>) \o <<127>> }
\* the values of the cluster and namespace labels; the empty set is an absent label
ClusterValues == {EmptyStr, Lit(<<"p", "r", "o", "d">>)}
NamespaceValues == {EmptyStr, Lit(<<"m", "o", "n">>)}
TestAlertName == Lit(<<"u", "p">>)
LabelOf(k, vs) == IF vs = {} THEN << >> ELSE (k :> (CHOOSE v \in vs : TRUE))
TransformAlerts ==
    { [Labels |-> (AlertnameKey :> TestAlertName) @@ LabelOf(ClusterKey, c) @@ LabelOf(NamespaceKey, n),
       GeneratorURL |-> u] :
        c \in {{}} \cup {{v} : v \in ClusterValues},
        n \in {{}} \cup {{v} : v \in NamespaceValues},
        u \in GeneratorURLs }
\* cfg.ClusterLabelKey: the default, and a key no alert carries
TransformConfigs == {[ClusterLabelKey |-> ClusterKey], [ClusterLabelKey |-> EmptyStr]}
NoIncident == [ShortDescription |-> EmptyStr, Description |-> << >>,
               CorrelationID |-> Sha256Hex8(EmptyStr)]

\* a URL with a cluster host, as generator URL and as external URL
ClusterURL == Https \o Lit(<<"a", ".", "a", "p", "p", "s", ".", "t", "c", ".", "i", "o">>)
\* payload.ExternalURL: absent, or the URL of an Alertmanager on a cluster host
ExternalURLs == {EmptyStr, ClusterURL}

TStart(a, tc, u) ==
    /\ tAlert = a
    /\ tExternalURL = u
    /\ tCfg = tc
    /\ tOrder = << >>
    /\ tDone = FALSE
    /\ tCluster = EmptyStr
    /\ tIncident = NoIncident

TInit == \E a \in TransformAlerts, tc \in TransformConfigs, u \in ExternalURLs : TStart(a, tc, u)

\* one call of Transform on tAlert
TransformAlert ==
    /\ UNCHANGED <<hvars, rvars, fvars, bvars, cvars, evars, qvars, svars, kvars>>
    /\ ~tDone
    /\ \E order \in RangeOrders(tAlert.Labels) :
        /\ tOrder' = order
        /\ tIncident' = Transform(tAlert, tExternalURL, tCfg, order)
    /\ tCluster' = extractClusterName(tAlert, tCfg)
    /\ tDone' = TRUE
    /\ UNCHANGED <<tAlert, tCfg, tExternalURL>>


(***************************************************************************)
(* extractClusterFromURL on arbitrary URLs                                 *)
(***************************************************************************)
\* the URLs tried: scheme, host up to the cluster, cluster, domain, port, path
ExtractURLs ==
    {sc \o h \o m \o c \o d \o pt \o pa :
        sc \in {Https, EmptyStr},
        h \in {Lit(<<"c">>), EmptyStr, Lit(<<"a", ".", "a", "p", "p", "s", ".", "x">>)},
        m \in {DotAppsDot, Lit(<<".", "a", "p", "p", ".">>), EmptyStr},
        c \in {Lit(<<"t", "c">>), EmptyStr, Lit(<<"t", " ", "c">>)},
        d \in {EmptyStr, Lit(<<".", "i", "o">>)},
        pt \in {EmptyStr, Lit(<<":", "8", "0">>), Lit(<<":", "x">>)},
        pa \in {EmptyStr, Lit(<<"/">>), Lit(<<"/", ".", "a", "p", "p", "s", ".", "y", ".", "z">>), <<47, 127>>}}

EStart(u) ==
    /\ eURL = u
    /\ eDone = FALSE
    /\ eCluster = EmptyStr

EInit == \E u \in ExtractURLs : EStart(u)

\* one call extractClusterFromURL(eURL)
ExtractCluster ==
    /\ UNCHANGED <<hvars, rvars, fvars, tvars, bvars, cvars, qvars, svars, kvars>>
    /\ ~eDone
    /\ eCluster' = extractClusterFromURL(eURL)
    /\ eDone' = TRUE
    /\ UNCHANGED eURL


(***************************************************************************)
(* One batch, with the start and the return of every client operation      *)
(***************************************************************************)
\* the longest batch
MaxQ == 3
QStatuses == {"firing", "resolved", "other"}
QBatches == UNION {[1..n -> QStatuses] : n \in 0..MaxQ}

\* a faulty variant: processAlert is started with `go`, the loop does not
\* wait for it
Blocks_go(op) == FALSE
\* `if err := h.processAlert(...)`: the loop goes on when the call has returned
Blocks(op) == TRUE

QStart(b) ==
    /\ qAlerts = b
    /\ qPos = 1
    /\ qPc = "loop"
    /\ qInFlight = {}
    /\ qFinished = {}
    /\ qCalls = << >>
    /\ qRequests = 0

QInit == \E b \in QBatches : QStart(b)

\* processAlert starts the first client operation of the alert at qPos
StartCall ==
    /\ UNCHANGED <<hvars, rvars, fvars, tvars, bvars, cvars, evars, svars, kvars>>
    /\ qPc = "loop" /\ qPos <= Len(qAlerts)
    /\ qAlerts[qPos] \in {"firing", "resolved"}
    /\ LET op == IF qAlerts[qPos] = "firing" THEN "CreateIncident"
                 ELSE "FindIncidentByCorrelationID"
       IN  /\ qInFlight' = qInFlight \cup {[idx |-> qPos, op |-> op, attempt |-> 1]}
           /\ qCalls' = Append(qCalls, [idx |-> qPos, op |-> op])
           /\ qRequests' = qRequests + 1
           /\ IF Blocks(op)
              THEN qPc' = "call" /\ UNCHANGED qPos
              ELSE qPos' = qPos + 1 /\ UNCHANGED qPc
    /\ UNCHANGED <<qAlerts, qFinished>>

\* WithRetry inside an operation makes another attempt
RetryCall ==
    /\ UNCHANGED <<hvars, rvars, fvars, tvars, bvars, cvars, evars, svars, kvars>>
    /\ \E c \in qInFlight :
        /\ MoreAttempts(c.attempt, DefaultRetryConfig.MaxAttempts)
        /\ qInFlight' = (qInFlight \ {c}) \cup {[c EXCEPT !.attempt = @ + 1]}
    /\ qRequests' = qRequests + 1
    /\ UNCHANGED <<qAlerts, qPos, qPc, qFinished, qCalls>>

\* an operation returns: a lookup that found a record is followed by
\* ResolveIncident, any other return ends processAlert
ReturnCall ==
    /\ UNCHANGED <<hvars, rvars, fvars, tvars, bvars, cvars, evars, svars, kvars>>
    /\ \E c \in qInFlight, found \in BOOLEAN :
        IF c.op = "FindIncidentByCorrelationID" /\ found
        THEN /\ qInFlight' = (qInFlight \ {c}) \cup
                    {[idx |-> c.idx, op |-> "ResolveIncident", attempt |-> 1]}
             /\ qCalls' = Append(qCalls, [idx |-> c.idx, op |-> "ResolveIncident"])
             /\ qRequests' = qRequests + 1
             /\ UNCHANGED <<qPos, qPc, qFinished>>
        ELSE /\ qInFlight' = qInFlight \ {c}
             /\ qFinished' = qFinished \cup {c.idx}
             /\ UNCHANGED <<qCalls, qRequests>>
             /\ IF qPc = "call"
                THEN qPc' = "loop" /\ qPos' = qPos + 1
                ELSE UNCHANGED <<qPos, qPc>>
    /\ UNCHANGED qAlerts

\* processAlert of an alert of another status returns without a call
SkipAlert ==
    /\ UNCHANGED <<hvars, rvars, fvars, tvars, bvars, cvars, evars, svars, kvars>>
    /\ qPc = "loop" /\ qPos <= Len(qAlerts)
    /\ qAlerts[qPos] \notin {"firing", "resolved"}
    /\ qPos' = qPos + 1
    /\ qFinished' = qFinished \cup {qPos}
    /\ UNCHANGED <<qAlerts, qPc, qInFlight, qCalls, qRequests>>

\* after the loop: w.WriteHeader(http.StatusOK)
WriteResponse ==
    /\ UNCHANGED <<hvars, rvars, fvars, tvars, bvars, cvars, evars, svars, kvars>>
    /\ qPc = "loop" /\ qPos > Len(qAlerts)
    /\ qPc' = "done"
    /\ UNCHANGED <<qAlerts, qPos, qInFlight, qFinished, qCalls, qRequests>>

QNext == StartCall \/ RetryCall \/ ReturnCall \/ SkipAlert \/ WriteResponse

(***************************************************************************)
(* main: the HTTP server and its graceful shutdown                         *)
(***************************************************************************)
\* most connections carrying a webhook request
MaxConns == 2
Conns == 1..MaxConns

\* context.WithTimeout(context.Background(), 30*time.Second), in seconds
DrainWindow == 30

\* a faulty variant: server.Close(), which does not wait for active connections
ShutdownIdle_close(reqs) == TRUE
\* server.Shutdown(ctx) returns nil once no connection is active
ShutdownIdle(reqs) == \A c \in Conns : reqs[c] # "active"

\* the process ends: a ServeHTTP still running is cut off
Exit(status) ==
    /\ sMain' = "exited"
    /\ sExit' = status
    /\ sReq' = [c \in Conns |-> IF sReq[c] = "active" THEN "aborted" ELSE sReq[c]]

\* after `go func() { server.ListenAndServe() }()`, main blocked in <-quit
SInit ==
    /\ sMain = "serving"
    /\ sListening = TRUE
    /\ sReq = [c \in Conns |-> "none"]
    /\ sElapsed = 0
    /\ sExit = -1
    /\ sAcceptedAt = [c \in Conns |-> "never"]
    /\ sDrained = {}

\* the server accepts a connection and starts ServeHTTP on its request
Accept(c) ==
    /\ UNCHANGED <<hvars, rvars, fvars, tvars, bvars, cvars, evars, qvars, kvars>>
    /\ sMain # "exited" /\ sListening /\ sReq[c] = "none"
    /\ sReq' = [sReq EXCEPT ![c] = "active"]
    /\ sAcceptedAt' = [sAcceptedAt EXCEPT ![c] = sMain]
    /\ UNCHANGED <<sMain, sListening, sElapsed, sExit, sDrained>>

\* ServeHTTP returns and the response is written to the connection
Finish(c) ==
    /\ UNCHANGED <<hvars, rvars, fvars, tvars, bvars, cvars, evars, qvars, kvars>>
    /\ sMain # "exited" /\ sReq[c] = "active"
    /\ sReq' = [sReq EXCEPT ![c] = "responded"]
    /\ sDrained' = IF sMain = "draining" THEN sDrained \cup {c} ELSE sDrained
    /\ UNCHANGED <<sMain, sListening, sElapsed, sExit, sAcceptedAt>>

\* SIGINT or SIGTERM arrives: <-quit returns
ReceiveSignal ==
    /\ UNCHANGED <<hvars, rvars, fvars, tvars, bvars, cvars, evars, qvars, kvars>>
    /\ sMain = "serving"
    /\ sMain' = "signalled"
    /\ UNCHANGED <<sListening, sReq, sElapsed, sExit, sAcceptedAt, sDrained>>

\* main creates the context and calls server.Shutdown(ctx), which closes the
\* listener before it waits
CallShutdown ==
    /\ UNCHANGED <<hvars, rvars, fvars, tvars, bvars, cvars, evars, qvars, kvars>>
    /\ sMain = "signalled"
    /\ sMain' = "draining"
    /\ sListening' = FALSE
    /\ sElapsed' = 0
    /\ UNCHANGED <<sReq, sExit, sAcceptedAt, sDrained>>

\* a second of the drain window passes
Tick ==
    /\ UNCHANGED <<hvars, rvars, fvars, tvars, bvars, cvars, evars, qvars, kvars>>
    /\ sMain = "draining" /\ sElapsed < DrainWindow
    /\ sElapsed' = sElapsed + 1
    /\ UNCHANGED <<sMain, sListening, sReq, sExit, sAcceptedAt, sDrained>>

\* server.Shutdown returns nil, main logs "server stopped" and returns
ShutdownReturns ==
    /\ UNCHANGED <<hvars, rvars, fvars, tvars, bvars, cvars, evars, qvars, kvars>>
    /\ sMain = "draining" /\ ShutdownIdle(sReq)
    /\ Exit(0)
    /\ UNCHANGED <<sListening, sElapsed, sAcceptedAt, sDrained>>

\* the context expires: server.Shutdown returns its error and main calls os.Exit(1)
DrainExpires ==
    /\ UNCHANGED <<hvars, rvars, fvars, tvars, bvars, cvars, evars, qvars, kvars>>
    /\ sMain = "draining" /\ sElapsed = DrainWindow
    /\ Exit(1)
    /\ UNCHANGED <<sListening, sElapsed, sAcceptedAt, sDrained>>

SNext ==
    \/ \E c \in Conns : Accept(c) \/ Finish(c)
    \/ ReceiveSignal
    \/ CallShutdown
    \/ Tick
    \/ ShutdownReturns
    \/ DrainExpires

(***************************************************************************)
(* processAlert: the correlation id of one alert                           *)
(***************************************************************************)
\* label maps over the keys "alertname" and one other label
KeyLabelMaps == UNION {[D -> {<<1>>, <<2>>}] : D \in SUBSET {AlertnameKey, <<2>>}}
\* alerts that differ in every field of models.Alert
KeyAlerts ==
    [Labels : KeyLabelMaps,
     Status : {"firing", "resolved", "unknown"},
     Summary : {EmptyStr, Lit(<<"s">>)},
     StartsAt : {0, 1},
     EndsAt : {0, 1},
     GeneratorURL : {EmptyStr, ClusterURL},
     Fingerprint : {EmptyStr, Lit(<<"f">>)}]

\* a faulty variant: the fingerprint Alertmanager sent is hashed when there is one
processAlertKey_fingerprint(alert, order) ==
    IF alert.Fingerprint # EmptyStr THEN Sha256Hex8(alert.Fingerprint)
    ELSE GenerateCorrelationID(Label(alert.Labels, AlertnameKey), alert.Labels, order)
\* processAlert: alertname := alert.Labels["alertname"];
\* correlationID := GenerateCorrelationID(alertname, alert.Labels)
processAlertKey(alert, order) ==
    GenerateCorrelationID(Label(alert.Labels, AlertnameKey), alert.Labels, order)

KStart(a, u, tc) ==
    /\ kAlert = a
    /\ kExternalURL = u
    /\ kCfg = tc
    /\ kDone = FALSE
    /\ kKey = NoIncident.CorrelationID
    /\ kIncidentKey = NoIncident.CorrelationID

KInit == \E a \in KeyAlerts, u \in ExternalURLs, tc \in TransformConfigs : KStart(a, u, tc)

\* processAlert computes the id; for a firing alert handleFiringAlert has
\* Transform build the incident that carries the id to CreateIncident
ProcessAlertKey ==
    /\ UNCHANGED <<hvars, rvars, fvars, tvars, bvars, cvars, evars, qvars, svars>>
    /\ ~kDone
    /\ \E order \in RangeOrders(kAlert.Labels) :
        kKey' = processAlertKey(kAlert, order)
    /\ IF kAlert.Status = "firing"
       THEN \E order \in RangeOrders(kAlert.Labels) :
                kIncidentKey' = Transform(kAlert, kExternalURL, kCfg, order).CorrelationID
       ELSE UNCHANGED kIncidentKey
    /\ kDone' = TRUE
    /\ UNCHANGED <<kAlert, kExternalURL, kCfg>>

(***************************************************************************)
(* Specifications                                                          *)
(***************************************************************************)
\* the parts of the state a specification leaves idle
RIdle == RStart([MaxAttempts |-> 0, BaseDelay |-> 0, MaxDelay |-> 1], "CreateIncident")
FIdle == FStart(EmptyStr, << >>)
TIdle == TStart([Labels |-> << >>, GeneratorURL |-> EmptyStr], [ClusterLabelKey |-> EmptyStr],
                EmptyStr)
BIdle == BStart(0, 0, 0)
CIdle == CStart(200)
EIdle == EStart(EmptyStr)
QIdle == QStart(<< >>)
SIdle == SInit
KIdle == KStart([Labels |-> << >>, Status |-> "firing", Summary |-> EmptyStr,
                 StartsAt |-> 0, EndsAt |-> 0, GeneratorURL |-> EmptyStr,
                 Fingerprint |-> EmptyStr],
                EmptyStr, [ClusterLabelKey |-> EmptyStr])

\* the handler, serving the requests against the incident table
Init == HInit /\ RIdle /\ FIdle /\ TIdle /\ BIdle /\ CIdle /\ EIdle /\ QIdle /\ SIdle /\ KIdle
Next == HNext
Spec == Init /\ [][Next]_vars

\* one call of WithRetry
InitRetry == HInit /\ RInit /\ FIdle /\ TIdle /\ BIdle /\ CIdle /\ EIdle /\ QIdle /\ SIdle /\ KIdle
NextRetry == RNext
SpecRetry == InitRetry /\ [][NextRetry]_vars

\* one call of WithRetry in which fn returns, the goroutine is scheduled and
\* every timer started by time.After fires unless the select was left before
LiveRetry == /\ WF_vars(Attempt) /\ WF_vars(ReturnLast)
             /\ WF_vars(Select) /\ WF_vars(TimerFires)
SpecRetryLive == InitRetry /\ [][NextRetry]_vars /\ LiveRetry

\* calls of GenerateCorrelationID on one input
InitFP == HInit /\ RIdle /\ FInit /\ TIdle /\ BIdle /\ CIdle /\ EIdle /\ QIdle /\ SIdle /\ KIdle
NextFP == Generate
SpecFP == InitFP /\ [][NextFP]_vars

\* one call of calculateBackoff
InitBackoff == HInit /\ RIdle /\ FIdle /\ TIdle /\ BInit /\ CIdle /\ EIdle /\ QIdle /\ SIdle /\ KIdle
NextBackoff == Backoff
SpecBackoff == InitBackoff /\ [][NextBackoff]_vars

\* one call of Transform
InitTransform == HInit /\ RIdle /\ FIdle /\ TInit /\ BIdle /\ CIdle /\ EIdle /\ QIdle /\ SIdle /\ KIdle
NextTransform == TransformAlert
SpecTransform == InitTransform /\ [][NextTransform]_vars

\* one call of checkResponse
InitCheck == HInit /\ RIdle /\ FIdle /\ TIdle /\ BIdle /\ CInit /\ EIdle /\ QIdle /\ SIdle /\ KIdle
NextCheck == CheckResponse
SpecCheck == InitCheck /\ [][NextCheck]_vars

\* one call of extractClusterFromURL
InitExtract == HInit /\ RIdle /\ FIdle /\ TIdle /\ BIdle /\ CIdle /\ EInit /\ QIdle /\ SIdle /\ KIdle
NextExtract == ExtractCluster
SpecExtract == InitExtract /\ [][NextExtract]_vars

\* one batch with its operations' starts and returns
InitBatch == HInit /\ RIdle /\ FIdle /\ TIdle /\ BIdle /\ CIdle /\ EIdle /\ QInit /\ SIdle /\ KIdle
NextBatch == QNext
SpecBatch == InitBatch /\ [][NextBatch]_vars

\* the process from the wait for a signal to its exit
InitShutdown == HInit /\ RIdle /\ FIdle /\ TIdle /\ BIdle /\ CIdle /\ EIdle /\ QIdle /\ SInit /\ KIdle
NextShutdown == SNext
SpecShutdown == InitShutdown /\ [][NextShutdown]_vars

\* the correlation id of one alert
InitKey == HInit /\ RIdle /\ FIdle /\ TIdle /\ BIdle /\ CIdle /\ EIdle /\ QIdle /\ SIdle /\ KInit
NextKey == ProcessAlertKey
SpecKey == InitKey /\ [][NextKey]_vars


(***************************************************************************)
(* Properties of the handler (Spec)                                        *)
(***************************************************************************)
\* the positions in calls[r] of the calls of op
CallsOf(r, op) == {k \in 1..Len(calls[r]) : calls[r][k].op = op}
\* the positions in calls[r] of the calls of op made for the alert at i
CallsFor(r, op, i) == {k \in CallsOf(r, op) : calls[r][k].idx = i}
\* the positions in alerts[r] of the alerts of status st
AlertsOf(r, st) == {i \in 1..Len(alerts[r]) : alerts[r][i].Status = st}
\* the alerts of r for which some call returned an error
FailedAlerts(r) == {i \in 1..Len(alerts[r]) : \E k \in 1..Len(calls[r]) :
                        calls[r][k].idx = i /\ calls[r][k].err}
Finished(r) == pc[r] = "done" /\ parsed[r]

\* C1: when a parsed batch has been served, every firing alert got exactly
\* one CreateIncident call and every resolved alert exactly one
\* FindIncidentByCorrelationID call, whatever the calls before returned: the
\* number of create calls is the number of firing alerts, the number of
\* lookups the number of resolved alerts.
C1_EveryAlertDispatchedOnce ==
    \A r \in Reqs : Finished(r) =>
        /\ \A i \in AlertsOf(r, "firing") : Cardinality(CallsFor(r, "CreateIncident", i)) = 1
        /\ \A i \in AlertsOf(r, "resolved") :
                Cardinality(CallsFor(r, "FindIncidentByCorrelationID", i)) = 1
        /\ Cardinality(CallsOf(r, "CreateIncident")) = Cardinality(AlertsOf(r, "firing"))
        /\ Cardinality(CallsOf(r, "FindIncidentByCorrelationID"))
                = Cardinality(AlertsOf(r, "resolved"))

\* a served batch whose first alert failed and whose second alert was dispatched
C1_Witness ==
    \E r \in Reqs :
        /\ Finished(r) /\ Len(alerts[r]) = 2
        /\ 1 \in FailedAlerts(r)
        /\ \E k \in 1..Len(calls[r]) : calls[r][k].idx = 2

\* C2: a POST whose body parsed is answered with 200, however many of its
\* alerts failed.
C2_ParsedBatchAnswered200 ==
    \A r \in Reqs : Finished(r) => code[r] = 200

\* a served batch all of whose alerts failed
C2_Witness ==
    \E r \in Reqs :
        /\ Finished(r) /\ Len(alerts[r]) = 2
        /\ errCount[r] = 2 /\ code[r] = 200

\* C3: the incident table never holds two incidents with the same
\* correlation id.
C3_OneIncidentPerKey ==
    \A i, j \in 1..Len(incidents) :
        incidents[i].CorrelationID = incidents[j].CorrelationID => i = j

\* C4: every incident that existed when a resolved alert with its key was
\* looked up, the lookup and the resolve call both succeeding, is resolved
\* once that alert is processed.
C4_CreatedIncidentResolved ==
    \A i \in owed : incidents[i].State = StateResolved

\* C8: a lookup that returned no record is followed by no ResolveIncident
\* call for that alert; only alerts with a failed call are counted in
\* errCount; and the batch is answered with 200.
C8_AbsentIncidentIsNoOp ==
    \A r \in Reqs :
        /\ \A k \in CallsOf(r, "FindIncidentByCorrelationID") :
              (~calls[r][k].err /\ calls[r][k].sysID = 0)
                  => CallsFor(r, "ResolveIncident", calls[r][k].idx) = {}
        /\ errCount[r] = Cardinality(FailedAlerts(r))
        /\ Finished(r) => code[r] = 200

\* a served batch with a resolved alert whose lookup found nothing
C8_Witness ==
    \E r \in Reqs :
        /\ Finished(r) /\ errCount[r] = 0 /\ code[r] = 200
        /\ \E k \in CallsOf(r, "FindIncidentByCorrelationID") :
              ~calls[r][k].err /\ calls[r][k].sysID = 0

\* C9: a lookup that returned a record is followed at once by the one
\* ResolveIncident call of that alert, made with the sys_id the lookup
\* returned, and the alert has no CreateIncident call; no ResolveIncident
\* call is made otherwise.
C9_ResolveFoundIncident ==
    \A r \in Reqs :
        /\ \A k \in CallsOf(r, "FindIncidentByCorrelationID") :
              LET c == calls[r][k]
              IN  (~c.err /\ c.sysID # 0) =>
                    /\ CallsFor(r, "CreateIncident", c.idx) = {}
                    /\ IF k = Len(calls[r])
                       THEN pc[r] = "resolve" /\ pos[r] = c.idx
                            /\ CallsFor(r, "ResolveIncident", c.idx) = {}
                       ELSE /\ calls[r][k + 1].op = "ResolveIncident"
                            /\ calls[r][k + 1].sysID = c.sysID
                            /\ CallsFor(r, "ResolveIncident", c.idx) = {k + 1}
        /\ \A k \in CallsOf(r, "ResolveIncident") :
              /\ k > 1
              /\ calls[r][k - 1].op = "FindIncidentByCorrelationID"
              /\ calls[r][k - 1].idx = calls[r][k].idx
              /\ ~calls[r][k - 1].err /\ calls[r][k - 1].sysID # 0

\* the second of two incidents with one key was found and resolved
C9_Witness ==
    \E r \in Reqs : \E k \in CallsOf(r, "ResolveIncident") :
        /\ calls[r][k].sysID = 2 /\ ~calls[r][k].err
        /\ incidents[2].State = StateResolved

(***************************************************************************)
(* Properties of WithRetry (SpecRetry)                                     *)
(***************************************************************************)
Returned == rpc = "returned"
\* a failure of status >= 500 or of the transport
ServerOrTransport(e) == e.kind = "transport" \/ (e.kind = "status" /\ e.StatusCode >= 500)
\* a failure of status 400..499
ClientFailure(e) == e.kind = "status" /\ e.StatusCode \in 400..499
AllServerOrTransport ==
    /\ Len(fnLog) >= 1
    /\ \A k \in 1..Len(fnLog) : ServerOrTransport(fnLog[k])

\* C5 as stated: when WithRetry has returned and every attempt (at least
\* one was made) failed with a status >= 500 or a transport error, fn was
\* invoked exactly MaxAttempts times and the last attempt's error is returned.
C5_AsStated ==
    (Returned /\ AllServerOrTransport) =>
        (Len(fnLog) = cfg.MaxAttempts /\ ret = fnLog[Len(fnLog)])

\* C5 as amended: when WithRetry has returned and every attempt (at least
\* one was made) failed with a status >= 500 or a transport error, either fn
\* was invoked exactly MaxAttempts times and the last attempt's error is
\* returned, or the context was cancelled and a backoff wait returned its
\* error after fewer than MaxAttempts invocations.
C5_RetriesExhausted ==
    (Returned /\ AllServerOrTransport) =>
        \/ Len(fnLog) = cfg.MaxAttempts /\ ret = fnLog[Len(fnLog)]
        \/ cancelled /\ ret = CtxErr /\ Len(fnLog) < cfg.MaxAttempts

\* three failed attempts, of both kinds, and the last error returned
C5_Witness ==
    /\ Returned /\ AllServerOrTransport /\ ~cancelled
    /\ cfg.MaxAttempts = 3 /\ Len(fnLog) = 3
    /\ fnLog[1] = TransportErr /\ fnLog[3] = StatusErr(503) /\ ret = StatusErr(503)

\* C6: an attempt that failed with a status in 400..499 is the last
\* invocation of fn; WithRetry has returned that error, and no wait was
\* entered after it (one wait per earlier attempt).
C6_ClientErrorNotRetried ==
    \A k \in 1..Len(fnLog) : ClientFailure(fnLog[k]) =>
        /\ k = Len(fnLog)
        /\ Returned /\ ret = fnLog[k]
        /\ Len(waits) = k - 1

\* a 4xx on the second attempt, after a 5xx
C6_Witness ==
    /\ Returned /\ Len(fnLog) = 2 /\ cfg.MaxAttempts = 3
    /\ fnLog[1] = StatusErr(500) /\ fnLog[2] = StatusErr(400) /\ ret = StatusErr(400)

\* C7: once the context was cancelled during a backoff wait, fn is not
\* invoked again, the select is left through ctx.Done() only, and what
\* WithRetry returns is ctx.Err().
C7_CancelDuringBackoff ==
    cancelAt # -1 =>
        /\ Len(fnLog) = cancelAt
        /\ rpc \in {"select", "returned"}
        /\ rpc = "select" => wake = "ctx"
        /\ Returned => ret = CtxErr

\* a call cancelled in its first wait, returned with attempts left
C7_Witness ==
    /\ cancelAt = 1 /\ Returned /\ ret = CtxErr
    /\ Len(fnLog) = 1 /\ cfg.MaxAttempts = 3

(***************************************************************************)
(* Properties of GenerateCorrelationID (SpecFP)                            *)
(***************************************************************************)
\* C10: all calls of GenerateCorrelationID on one alert name and label map
\* return the same value, in whatever order each call enumerated the map.
C10_OrderIndependent ==
    \A i, j \in 1..Len(fpIds) : fpIds[i] = fpIds[j]

\* two calls on a map of two labels, enumerated in different orders
C10_Witness ==
    /\ Len(fpIds) = 2
    /\ Cardinality(DOMAIN fpLabels) = 2
    /\ fpOrders[1] # fpOrders[2]


\* C11: an alert name and label map different from the ones of this call
\* never give the value this call returned: the bytes written to the builder
\* are different for different inputs.
C11_DistinctInputsDistinctIds ==
    \A i \in 1..Len(fpIds) :
        \A n \in AlertNames, l \in LabelMaps :
            (n # fpName \/ l # fpLabels) =>
                \A order \in RangeOrders(l) :
                    GenerateCorrelationID(n, l, order) # fpIds[i]


(***************************************************************************)
(* Properties of calculateBackoff (SpecBackoff)                            *)
(***************************************************************************)
\* C15: the delay returned for attempt a is the smaller of base * 2^a and
\* max, so it is at most max and not negative, for every attempt and delays.
C15_WaitIsCappedDoubling ==
    bDone =>
        /\ bDelay = (IF bBase * Pow2(bAttempt) < bMax THEN bBase * Pow2(bAttempt) ELSE bMax)
        /\ bDelay <= bMax
        /\ bDelay >= 0

(***************************************************************************)
(* Properties of Transform (SpecTransform)                                 *)
(***************************************************************************)
\* C18: the cluster name Transform works with is the value of the configured
\* cluster label when that is not empty, else what extractClusterFromURL
\* gives for the generator URL when that is not empty, else the empty
\* string; a label value is used whatever the URL holds.
C18_ClusterResolutionOrder ==
    tDone =>
        LET label == Label(tAlert.Labels, tCfg.ClusterLabelKey)
            fromURL == extractClusterFromURL(tAlert.GeneratorURL)
        IN  /\ label # EmptyStr => tCluster = label
            /\ label = EmptyStr /\ fromURL # EmptyStr => tCluster = fromURL
            /\ label = EmptyStr /\ fromURL = EmptyStr => tCluster = EmptyStr

\* the label "prod" is used although the URL names the cluster "os-lb3"
C18_Witness ==
    /\ tDone
    /\ Label(tAlert.Labels, tCfg.ClusterLabelKey) = Lit(<<"p", "r", "o", "d">>)
    /\ extractClusterFromURL(tAlert.GeneratorURL) = Lit(<<"o", "s", "-", "l", "b", "3">>)
    /\ tCluster = Lit(<<"p", "r", "o", "d">>)

\* C19: the short description is "[C] <alertname>" when the namespace label
\* is absent or empty and "[C] <alertname> in namespace: <namespace>"
\* otherwise, C being the cluster name, or "unknown-cluster" when the cluster
\* name is empty.
C19_ShortDescriptionFormat ==
    tDone =>
        LET C == IF tCluster = EmptyStr
                 THEN Lit(<<"u", "n", "k", "n", "o", "w", "n", "-", "c", "l", "u", "s", "t", "e", "r">>)
                 ELSE tCluster
            alertname == Label(tAlert.Labels, AlertnameKey)
            head == Lit(<<"[">>) \o C \o Lit(<<"]", " ">>) \o alertname
        IN  IF NamespaceKey \notin DOMAIN tAlert.Labels \/ tAlert.Labels[NamespaceKey] = EmptyStr
            THEN tIncident.ShortDescription = head
            ELSE tIncident.ShortDescription =
                    head \o Lit(<<" ", "i", "n", " ", "n", "a", "m", "e", "s", "p", "a", "c", "e", ":", " ">>)
                         \o tAlert.Labels[NamespaceKey]

\* no cluster label, no cluster in the URL, a namespace
C19_Witness ==
    /\ tDone
    /\ tCluster = EmptyStr
    /\ tIncident.ShortDescription =
         Lit(<<"[", "u", "n", "k", "n", "o", "w", "n", "-", "c", "l", "u", "s", "t", "e", "r", "]", " ",
               "u", "p", " ", "i", "n", " ", "n", "a", "m", "e", "s", "p", "a", "c", "e", ":", " ", "m", "o", "n">>)


(***************************************************************************)
(* Further properties of the handler (Spec)                                *)
(***************************************************************************)
\* the labels of the alert a call of request r was made for
LabelsOfCall(r, k) == alerts[r][calls[r][k].idx].Labels
\* per label map L of the model's alerts, the values of
\* GenerateCorrelationID(L[alertname], L) over the enumeration orders of L
Fingerprints ==
    [L \in {a.Labels : a \in Alerts} |->
        {GenerateCorrelationID(Label(L, AlertnameKey), L, order) : order \in RangeOrders(L)}]

\* C12: for a firing and a resolved alert with the same label map L, the
\* CorrelationID of the incident handed to CreateIncident and the key handed
\* to FindIncidentByCorrelationID are the same value, which is
\* GenerateCorrelationID(L[alertname], L).
C12_CreateAndLookupSameKey ==
    \A r1, r2 \in Reqs :
        \A k \in CallsOf(r1, "CreateIncident"),
           l \in CallsOf(r2, "FindIncidentByCorrelationID") :
            LabelsOfCall(r1, k) = LabelsOfCall(r2, l) =>
                LET L == LabelsOfCall(r1, k)
                IN  /\ calls[r1][k].key = calls[r2][l].key
                    /\ Fingerprints[L] = {calls[r1][k].key}

\* an incident created for a label map that a resolved alert was looked up with
C12_Witness ==
    \E r1, r2 \in Reqs :
        \E k \in CallsOf(r1, "CreateIncident"),
           l \in CallsOf(r2, "FindIncidentByCorrelationID") :
            /\ LabelsOfCall(r1, k) = LabelsOfCall(r2, l)
            /\ ~calls[r1][k].err
            /\ calls[r2][l].sysID # 0

\* the positions in alerts[r] of the alerts that are neither firing nor resolved
OtherAlerts(r) == {i \in 1..Len(alerts[r]) : alerts[r][i].Status \notin {"firing", "resolved"}}

\* C13: no call is made for an alert that is neither firing nor resolved,
\* such an alert is not counted in errCount, and once the batch is served
\* every firing or resolved alert behind it has had its call.
C13_OtherStatusSkipped ==
    \A r \in Reqs :
        /\ \A k \in 1..Len(calls[r]) : calls[r][k].idx \notin OtherAlerts(r)
        /\ errCount[r] = Cardinality(FailedAlerts(r) \ OtherAlerts(r))
        /\ Finished(r) =>
              \A i \in OtherAlerts(r) : \A j \in (i + 1)..Len(alerts[r]) :
                  j \notin OtherAlerts(r) => \E k \in 1..Len(calls[r]) : calls[r][k].idx = j

\* a served batch: an alert of another status, then a firing alert that got its call
C13_Witness ==
    \E r \in Reqs :
        /\ Finished(r) /\ Len(alerts[r]) = 2
        /\ 1 \in OtherAlerts(r) /\ alerts[r][2].Status = "firing"
        /\ errCount[r] = 0
        /\ CallsFor(r, "CreateIncident", 2) # {}

\* C14: the calls of one request are made in the order of its alerts: a
\* call (one whole WithRetry, with its retries) for a later alert is never
\* followed by a call for an earlier one, and no call is made for an alert
\* behind the one the loop is at.
C14_AlertsInOrder ==
    \A r \in Reqs :
        /\ \A k, l \in 1..Len(calls[r]) : k < l => calls[r][k].idx <= calls[r][l].idx
        /\ \A k \in 1..Len(calls[r]) :
              IF pc[r] = "resolve" THEN calls[r][k].idx <= pos[r]
              ELSE calls[r][k].idx < pos[r]

\* the lookup and the resolve call of the first alert, then the call of the second
C14_Witness ==
    \E r \in Reqs :
        /\ Len(calls[r]) = 3
        /\ calls[r][1].idx = 1 /\ calls[r][2].idx = 1 /\ calls[r][3].idx = 2
        /\ calls[r][2].op = "ResolveIncident"

\* C16: a request with another method than POST is answered 405, a POST
\* whose body did not parse is answered 400, and in both cases the request
\* made no client call.
C16_RejectedWithoutCalls ==
    \A r \in Reqs : pc[r] = "done" =>
        /\ method[r] # "POST" => code[r] = 405 /\ calls[r] = << >>
        /\ (method[r] = "POST" /\ ~parsed[r]) => code[r] = 400 /\ calls[r] = << >>

\* one request rejected for its method, the other for its body
C16_Witness ==
    \E r1, r2 \in Reqs :
        /\ pc[r1] = "done" /\ method[r1] = "GET" /\ code[r1] = 405
        /\ pc[r2] = "done" /\ method[r2] = "POST" /\ ~parsed[r2] /\ code[r2] = 400

\* C17: a lookup answered 2xx with an empty result list returns no record
\* and no error; answered 2xx with a list that is not empty it returns the
\* first record of the list and no error.
C17_LookupReturnsFirstOrNone ==
    \A r \in Reqs : \A k \in CallsOf(r, "FindIncidentByCorrelationID") :
        calls[r][k].out = "ok" =>
            /\ ~calls[r][k].err
            /\ calls[r][k].got = << >> => calls[r][k].sysID = Nil.SysID
            /\ calls[r][k].got # << >> => calls[r][k].sysID = calls[r][k].got[1].SysID

\* a lookup that got an empty list and a lookup that got a record
C17_Witness ==
    \E r1, r2 \in Reqs :
        \E k \in CallsOf(r1, "FindIncidentByCorrelationID"),
           l \in CallsOf(r2, "FindIncidentByCorrelationID") :
            /\ calls[r1][k].out = "ok" /\ calls[r1][k].got = << >>
            /\ ~calls[r1][k].err /\ calls[r1][k].sysID = 0
            /\ calls[r2][l].out = "ok" /\ Len(calls[r2][l].got) = 1
            /\ ~calls[r2][l].err /\ calls[r2][l].sysID = calls[r2][l].got[1].SysID

\* request r makes a ResolveIncident call that succeeds in this step
ResolveSucceeds(r) ==
    /\ Len(calls'[r]) = Len(calls[r]) + 1
    /\ calls'[r][Len(calls'[r])].op = "ResolveIncident"
    /\ ~calls'[r][Len(calls'[r])].err

\* C20: a ResolveIncident(sysID) call that succeeds sets the state of the
\* record sysID to "6" and changes nothing else in the table: every other
\* record stays as it is and the table has as many records as before.
C20_ResolveUpdatesOneRecord ==
    [][\A r \in Reqs : ResolveSucceeds(r) =>
            LET sysID == calls'[r][Len(calls'[r])].sysID
            IN  /\ Len(incidents') = Len(incidents)
                /\ incidents'[sysID].State = "6"
                /\ incidents'[sysID].CorrelationID = incidents[sysID].CorrelationID
                /\ \A i \in 1..Len(incidents) : i # sysID => incidents'[i] = incidents[i]]_vars

\* the second of two incidents with one correlation id was resolved, the
\* first was left in its state
C20_Witness ==
    /\ Len(incidents) >= 2
    /\ incidents[1].CorrelationID = incidents[2].CorrelationID
    /\ incidents[1].State = StateNew
    /\ incidents[2].State = StateResolved
    /\ \E r \in Reqs : \E k \in CallsOf(r, "ResolveIncident") :
            calls[r][k].sysID = 2 /\ ~calls[r][k].err


(***************************************************************************)
(* Further properties of WithRetry (SpecRetry, SpecRetryLive)              *)
(***************************************************************************)
\* the last permitted attempt has been made and has failed
FinalAttemptFailed ==
    /\ cfg.MaxAttempts >= 1 /\ Len(fnLog) = cfg.MaxAttempts
    /\ fnLog[Len(fnLog)] # NoErr
\* the waits that ran until their timer fired
WaitsCompleted ==
    IF rpc = "select" \/ (Returned /\ ret = CtxErr) THEN Len(waits) - 1 ELSE Len(waits)

\* C21 as stated: a call that has returned after k attempts entered at most
\* k-1 waits.
C21_AsStated ==
    (Returned /\ Len(fnLog) >= 1) => Len(waits) <= Len(fnLog) - 1

\* C21: after the last permitted attempt has failed no select is entered and
\* what WithRetry returns is that attempt's error, also when the context was
\* cancelled meanwhile; a call returning after k attempts has at most k-1 waits whose
\* timer fired, and a k-th wait is one that the context's cancellation ends.
C21_NoWaitAfterFinalAttempt ==
    /\ FinalAttemptFailed =>
          /\ rpc \in {"loop", "returned"}
          /\ Len(waits) = cfg.MaxAttempts - 1
          /\ Returned => ret = fnLog[Len(fnLog)]
    /\ Len(fnLog) >= 1 =>
          /\ Returned => WaitsCompleted <= Len(fnLog) - 1
          /\ Len(waits) <= Len(fnLog)
          /\ (Returned /\ Len(waits) = Len(fnLog)) => ret = CtxErr

\* three failed attempts, the context cancelled after the third: its error
\* is returned after two waits
C21_Witness ==
    /\ Returned /\ cfg.MaxAttempts = 3 /\ Len(fnLog) = 3
    /\ cancelled /\ cancelAt = -1
    /\ ret = StatusErr(503) /\ fnLog[3] = StatusErr(503)
    /\ Len(waits) = 2

\* C22: an attempt on which fn returned nil is the last invocation of fn:
\* WithRetry has returned nil, fn was invoked as many times as that
\* attempt's number, and one wait was entered per attempt before it.
C22_SuccessReturnsAtOnce ==
    \A k \in 1..Len(fnLog) : fnLog[k] = NoErr =>
        /\ k = Len(fnLog) /\ k <= cfg.MaxAttempts
        /\ Returned /\ ret = NoErr
        /\ Len(waits) = k - 1

\* success on the third attempt after two failures
C22_Witness ==
    /\ Returned /\ ret = NoErr
    /\ Len(fnLog) = 3 /\ fnLog[3] = NoErr
    /\ fnLog[1] = TransportErr /\ fnLog[2] = StatusErr(500)
    /\ Len(waits) = 2

\* C24: WithRetry returns in the end, and fn is never invoked more than
\* MaxAttempts times.
C24_WithRetryTerminates ==
    /\ <>Returned
    /\ [](Len(fnLog) <= cfg.MaxAttempts)

\* a call that returned after using all its attempts and waits
C24_Witness ==
    /\ Returned /\ cfg.MaxAttempts = MaxTries
    /\ Len(fnLog) = MaxTries /\ Len(waits) = MaxTries - 1
    /\ ret = TransportErr


(***************************************************************************)
(* Errors, replicas and shared state of the handler (Spec)                 *)
(***************************************************************************)
\* the alerts of r behind position i that are firing or resolved have had a call
LaterAlertsProcessed(r, i) ==
    \A j \in (i + 1)..Len(alerts[r]) :
        j \notin OtherAlerts(r) => \E k \in 1..Len(calls[r]) : calls[r][k].idx = j

\* C26: a lookup that returned an error is followed by no ResolveIncident
\* call for its alert; an alert whose lookup or whose ResolveIncident call
\* returned an error is counted once in errCount; and once the batch is
\* served the alerts behind it have had their calls.
C26_ResolveErrorsCounted ==
    \A r \in Reqs :
        /\ \A k \in CallsOf(r, "FindIncidentByCorrelationID") : calls[r][k].err =>
              CallsFor(r, "ResolveIncident", calls[r][k].idx) = {}
        /\ errCount[r] = Cardinality(FailedAlerts(r))
        /\ \A i \in AlertsOf(r, "resolved") :
              (i \in FailedAlerts(r) /\ Finished(r)) => LaterAlertsProcessed(r, i)

\* a served batch: the first alert's lookup found a record and its
\* ResolveIncident call failed, the second alert got its call
C26_Witness ==
    \E r \in Reqs :
        /\ Finished(r) /\ Len(alerts[r]) = 2 /\ errCount[r] >= 1
        /\ \E k \in CallsFor(r, "FindIncidentByCorrelationID", 1) : ~calls[r][k].err
        /\ \E k \in CallsFor(r, "ResolveIncident", 1) : calls[r][k].err
        /\ \E k \in 1..Len(calls[r]) : calls[r][k].idx = 2

\* the lookups of r that were answered with an empty list
AbsentLookups(r) ==
    {k \in CallsOf(r, "FindIncidentByCorrelationID") :
        calls[r][k].out = "ok" /\ calls[r][k].got = << >>}

\* C27: a resolved alert looked up while no incident with its key exists
\* (the firing alert's CreateIncident taking effect later, from another
\* request) makes no ResolveIncident call and is not a failure, and an
\* incident with that key is resolved only by the ResolveIncident call of
\* another alert's processing.
C27_ResolvedBeforeFiring ==
    \A r \in Reqs : \A k \in AbsentLookups(r) :
        /\ CallsFor(r, "ResolveIncident", calls[r][k].idx) = {}
        /\ calls[r][k].idx \notin FailedAlerts(r)
        /\ errCount[r] = Cardinality(FailedAlerts(r))
        /\ \A j \in Matching(calls[r][k].key) :
              incidents[j].State = StateResolved =>
                  \E r2 \in Reqs : \E l \in CallsOf(r2, "ResolveIncident") :
                      /\ calls[r2][l].sysID = j /\ ~calls[r2][l].err
                      /\ (r2 # r \/ calls[r2][l].idx # calls[r][k].idx)

\* both requests served: one looked its resolved alert up before the other
\* created the incident, which is left in the state it was created in
C27_Witness ==
    \E r1, r2 \in Reqs :
        /\ r1 # r2 /\ Finished(r1) /\ Finished(r2) /\ errCount[r1] = 0
        /\ \E k \in AbsentLookups(r1), l \in CallsOf(r2, "CreateIncident") :
              /\ calls[r2][l].key = calls[r1][k].key /\ ~calls[r2][l].err
              /\ \A j \in Matching(calls[r1][k].key) : incidents[j].State = StateNew

\* C28: the Handler, its Transformer and its Client are what NewHandler set
\* them to, and every call of a request is made with values of that request:
\* the key is the fingerprint of the request's own alert, and the sysID
\* passed to ResolveIncident is the one the request's own lookup for that
\* alert returned just before.
C28_NoSharedState ==
    /\ handler = NewHandler
    /\ \A r \in Reqs : \A k \in 1..Len(calls[r]) :
          IF calls[r][k].op = "ResolveIncident"
          THEN /\ k > 1
               /\ calls[r][k - 1].op = "FindIncidentByCorrelationID"
               /\ calls[r][k - 1].idx = calls[r][k].idx
               /\ calls[r][k - 1].sysID = calls[r][k].sysID
               /\ calls[r][k].sysID # Nil.SysID
          ELSE Fingerprints[LabelsOfCall(r, k)] = {calls[r][k].key}

\* the two requests interleave: both resolved a record after both had
\* looked it up
C28_Witness ==
    \E r1, r2 \in Reqs :
        /\ r1 # r2 /\ pc[r1] = "resolve" /\ existing[r1].SysID # 0
        /\ \E k \in CallsOf(r2, "ResolveIncident") : ~calls[r2][k].err
        /\ handler = NewHandler


(***************************************************************************)
(* Further properties of Transform (SpecTransform)                         *)
(***************************************************************************)
\* C29: with an empty cluster name the short description opens with
\* "[unknown-cluster] " while the description's line "Cluster: " ends after
\* the blank; with a cluster name both carry that name.
C29_UnknownClusterOnlyInShort ==
    tDone =>
        LET line == tIncident.Description[2]
            short == tIncident.ShortDescription
        IN  IF tCluster = EmptyStr
            THEN /\ HasPrefix(short, Lit(<<"[", "u", "n", "k", "n", "o", "w", "n", "-",
                                           "c", "l", "u", "s", "t", "e", "r", "]", " ">>))
                 /\ line = Lit(<<"C", "l", "u", "s", "t", "e", "r", ":", " ">>)
            ELSE /\ HasPrefix(short, Lit(<<"[">>) \o tCluster \o Lit(<<"]", " ">>))
                 /\ line = Lit(<<"C", "l", "u", "s", "t", "e", "r", ":", " ">>) \o tCluster

\* an alert without a cluster: the two texts differ
C29_Witness ==
    /\ tDone /\ tCluster = EmptyStr
    /\ tIncident.Description[2] = Lit(<<"C", "l", "u", "s", "t", "e", "r", ":", " ">>)
    /\ tIncident.ShortDescription =
         Lit(<<"[", "u", "n", "k", "n", "o", "w", "n", "-", "c", "l", "u", "s", "t", "e", "r", "]", " ", "u", "p">>)


(***************************************************************************)
(* Properties of checkResponse (SpecCheck)                                 *)
(***************************************************************************)
\* C23: a status outside 200..299 gives a classified error that carries
\* that status code; a status in 200..299 gives no error.
C23_NonSuccessClassified ==
    cDone =>
        IF cStatus \in 200..299
        THEN cErr = NoErr
        ELSE cErr.kind = "status" /\ cErr.StatusCode = cStatus

\* a redirect is classified
C23_Witness ==
    cDone /\ cStatus = 302 /\ cErr = StatusErr(302)

(***************************************************************************)
(* Properties of one batch (SpecBatch)                                     *)
(***************************************************************************)
\* C25: at most one client operation of the request is under way at any
\* moment, and when the response is written no operation is under way and
\* processAlert has returned for every alert of the batch.
C25_OneOperationAtATime ==
    /\ Cardinality(qInFlight) <= 1
    /\ qPc = "done" => qInFlight = {} /\ qFinished = 1..Len(qAlerts)
    /\ \A c \in qInFlight : qPc = "call" /\ c.idx = qPos

\* the second alert's ResolveIncident in its last attempt, the first alert done
C25_Witness ==
    /\ qFinished = {1} /\ qPos = 2 /\ Len(qAlerts) = 3
    /\ qInFlight = {[idx |-> 2, op |-> "ResolveIncident",
                     attempt |-> DefaultRetryConfig.MaxAttempts]}

(***************************************************************************)
(* Properties of extractClusterFromURL (SpecExtract)                       *)
(***************************************************************************)
\* the hostname of eURL as net/url gives it
HostOfURL == Hostname(ParseURL(eURL).Host)
\* the offsets (from 0) at which ".apps." occurs in the hostname
AppsAt == {i \in 0..(Len(HostOfURL) - 6) : SubSeq(HostOfURL, i + 1, i + 6) = Lit(<<".", "a", "p", "p", "s", ".">>)}

\* C30: when the URL is empty, does not parse or has no ".apps." in its
\* hostname, the result is empty; otherwise the result is the text that
\* follows the first ".apps." of the hostname, up to the next "." or, with
\* no "." left, up to the end of the hostname.
C30_ClusterBetweenAppsAndDot ==
    eDone =>
        IF eURL = EmptyStr \/ ParseURL(eURL).err \/ AppsAt = {}
        THEN eCluster = EmptyStr
        ELSE LET first == CHOOSE i \in AppsAt : \A j \in AppsAt : i <= j
                 rest == SubSeq(HostOfURL, first + 7, Len(HostOfURL))
             IN  /\ Len(eCluster) <= Len(rest)
                 /\ SubSeq(rest, 1, Len(eCluster)) = eCluster
                 /\ \A k \in 1..Len(eCluster) : eCluster[k] # 46
                 /\ Len(rest) > Len(eCluster) => rest[Len(eCluster) + 1] = 46

\* a host with two ".apps.", a port and a domain: the text behind the first one
C30_Witness ==
    /\ eDone
    /\ eURL = Lit(<<"h", "t", "t", "p", "s", ":", "/", "/", "a", ".", "a", "p", "p", "s", ".", "x",
                    ".", "a", "p", "p", "s", ".", "t", "c", ".", "i", "o", ":", "8", "0", "/">>)
    /\ eCluster = Lit(<<"x">>)

C32_NilOnlyAfterSuccess ==
    (Returned /\ ret = NoErr) => \E k \in 1..Len(fnLog) : fnLog[k] = NoErr

\* C33: in one call of CreateIncident, an attempt that received a response
\* with a status in 200..299 is the last request the call sends.
C33_NoCreateAfter2xx ==
    rop = "CreateIncident" =>
        \A k \in 1..Len(sent) : sent[k].status \in 200..299 => k = Len(sent)

\* C34: after a failed attempt that is not the final permitted one, WithRetry
\* goes on (it enters the wait before the next attempt) if and only if
\* IsRetryable holds of the attempt's error.
C34_RetryAgreesWithIsRetryable ==
    \A k \in 1..Len(fnLog) :
        (fnLog[k] # NoErr /\ k < cfg.MaxAttempts) =>
            (Len(waits) >= k <=> IsRetryable(fnLog[k]))

(***************************************************************************)
(* Properties of the correlation id of an alert (SpecKey)                  *)
(***************************************************************************)
\* the id of a label map: that of the firing alert which carries these
\* labels and nothing else, in a batch without external URL, on a replica
\* of the default configuration
KeyOfLabels ==
    [l \in KeyLabelMaps |->
        GenerateCorrelationID(Label(l, AlertnameKey), l,
                              CHOOSE o \in RangeOrders(l) : TRUE)]

\* C35: the correlation id processAlert computes for an alert, and the one
\* the incident of a firing alert carries, is the id of the alert's label
\* map: alerts with equal label maps get equal ids whatever their status,
\* annotations, times, generator URL and fingerprint, the batch's external
\* URL and the replica's configuration are.
C35_KeyDependsOnLabelsOnly ==
    kDone =>
        /\ kKey = KeyOfLabels[kAlert.Labels]
        /\ kAlert.Status = "firing" => kIncidentKey = KeyOfLabels[kAlert.Labels]

\* a resolved alert of two labels that differs from the plain firing alert
\* in every other field, on a replica of another configuration
C35_Witness ==
    /\ kDone /\ kAlert.Status = "resolved"
    /\ Cardinality(DOMAIN kAlert.Labels) = 2
    /\ kAlert.Summary # EmptyStr /\ kAlert.StartsAt = 1 /\ kAlert.EndsAt = 1
    /\ kAlert.GeneratorURL # EmptyStr /\ kAlert.Fingerprint # EmptyStr
    /\ kExternalURL # EmptyStr /\ kCfg.ClusterLabelKey = EmptyStr
    /\ kKey = KeyOfLabels[kAlert.Labels]

(***************************************************************************)
(* Further properties of the handler (Spec)                                *)
(***************************************************************************)
\* the alerts of r delivered with success: a firing alert whose
\* CreateIncident call, a resolved alert whose ResolveIncident call returned nil
DeliveredAlerts(r) ==
    {i \in 1..Len(alerts[r]) : \E k \in 1..Len(calls[r]) :
        /\ calls[r][k].idx = i /\ ~calls[r][k].err
        /\ calls[r][k].op \in {"CreateIncident", "ResolveIncident"}}
\* the resolved alerts of r whose lookup found no record
AbsentAlerts(r) == {calls[r][k].idx : k \in AbsentLookups(r)}

\* C36: when a batch has been served, errCount is the number of its alerts
\* for which a client call returned an error to processAlert; it lies
\* between 0 and the size of the batch, and every alert of another status,
\* every resolved alert without a record and every delivered alert is left
\* out of it: errCount is the number of the remaining alerts.
C36_ErrCountIsFailedAlerts ==
    \A r \in Reqs : Finished(r) =>
        LET zero == OtherAlerts(r) \cup AbsentAlerts(r) \cup DeliveredAlerts(r)
        IN  /\ errCount[r] = Cardinality(FailedAlerts(r))
            /\ errCount[r] \in 0..Len(alerts[r])
            /\ zero \cap FailedAlerts(r) = {}
            /\ errCount[r] = Len(alerts[r]) - Cardinality(zero)

\* two served batches: both alerts of the first failed, the alert of the
\* second, of another status, did not
C36_Witness ==
    /\ Finished("r1") /\ Len(alerts["r1"]) = 2 /\ errCount["r1"] = 2
    /\ Finished("r2") /\ OtherAlerts("r2") = {1} /\ errCount["r2"] = 0

(***************************************************************************)
(* Further properties of one batch (SpecBatch)                             *)
(***************************************************************************)
\* the positions in qCalls of the calls of op started for the alert at i
QCallsFor(i, op) == {k \in 1..Len(qCalls) : qCalls[k].idx = i /\ qCalls[k].op = op}

C38_ExternalURLIgnored ==
    tDone =>
        \A u \in ExternalURLs : \A o \in RangeOrders(tAlert.Labels) :
            Transform(tAlert, u, tCfg, o) = tIncident

\* a call with an external URL on a cluster host for an alert that names no
\* cluster itself: the incident says unknown-cluster
C38_Witness ==
    /\ tDone /\ tExternalURL = ClusterURL
    /\ extractClusterFromURL(tExternalURL) # EmptyStr
    /\ tCluster = EmptyStr
    /\ HasPrefix(tIncident.ShortDescription, <<91>> \o UnknownCluster)
====
